---- MODULE Spec2Model ----
(***************************************************************************)
(* A model of lorenz/winsysroot: the bounded reader (cab/exactreader.go),  *)
(* the Cabinet reader (cab/cabfile.go) and the MSI string pool decoder     *)
(* (msi/msi.go).  Bytes are the integers 0..255, byte strings are          *)
(* sequences of them, little-endian integers are decoded from the bytes.   *)
(***************************************************************************)
EXTENDS Integers, Sequences, FiniteSets, TLC

VARIABLES
    er,     \* an ExactReaderImpl over an underlying source, and its last Read
    pool,   \* a decodeStrings call: its two inputs and its result
    desc,   \* the description the source of the Cabinet was laid out from
    cab,    \* the Cabinet: its source and position, its fields
    rd,     \* the reader the last successful Content returned
    out,    \* what the last call on the Cabinet returned, and the history
    nm,     \* a decodeName call: the name, its code units, the result
    msi,    \* an msi.Parse call: the tables of the database, the result
    vfs,    \* the tree of a vfsTargetLayer and the result of the last Place
    drv     \* the driver: where it is in its loop, and what the sink has seen

vars == <<er, pool, desc, cab, rd, out, nm, msi, vfs, drv>>

\* The one element of a set of one: The({e(x) : x \in {v}}) is e of the
\* value v.
The(S) == CHOOSE x \in S : TRUE

Min(a, b) == IF a < b THEN a ELSE b

Max(a, b) == IF a > b THEN a ELSE b

(***************************************************************************)
(* Fixed-width unsigned integers.  A uint32 is two and a uint64 four       *)
(* 16-bit digits, least significant first, so that no intermediate value   *)
(* leaves the range of the checker's integers.                             *)
(***************************************************************************)

\* 2^16, the digit base.
Base == 65536

\* The w-digit number of n, 0 <= n < 2^31.
Wide(n, w) == [i \in 1..w |-> IF i = 1 THEN n % Base
                              ELSE IF i = 2 THEN n \div Base ELSE 0]

\* Zero-extension to w digits: uint64(x), int(x) on a 64-bit build.
Extend(a, w) == [i \in 1..w |-> IF i <= Len(a) THEN a[i] ELSE 0]

\* a + b of equal width, wrapping at the width.
RECURSIVE AddFrom(_, _, _, _)
AddFrom(a, b, i, carry) ==
    IF i > Len(a) THEN <<>>
    ELSE LET t == a[i] + b[i] + carry
         IN  <<t % Base>> \o AddFrom(a, b, i + 1, t \div Base)

AddW(a, b) == AddFrom(a, b, 1, 0)

\* a < b and a <= b of equal width.
RECURSIVE LessFrom(_, _, _)
LessFrom(a, b, i) ==
    IF i = 0 THEN FALSE
    ELSE IF a[i] # b[i] THEN a[i] < b[i]
    ELSE LessFrom(a, b, i - 1)

LessW(a, b) == LessFrom(a, b, Len(a))

LeqW(a, b) == a = b \/ LessW(a, b)

\* x << 32 of a uint64.
Shl32(a) == <<0, 0, a[1], a[2]>>

\* The number of a wide value that is below 2^31.
FitsNat(a) == a[2] < 32768 /\ \A i \in 3..Len(a) : a[i] = 0

NatOf(a) == a[1] + Base * a[2]

(***************************************************************************)
(* Section 1.  ExactReaderImpl (cab/exactreader.go).                       *)
(***************************************************************************)

\* Largest count an ExactReader is created with.
MaxCount == 3

\* Largest number of bytes left in the underlying source.
MaxUnder == 4

\* Largest buffer handed to Read.
MaxBuf == 3

\* The results an io.Reader may give for a buffer of k bytes when `left`
\* bytes remain: with nothing left (0, EOF); otherwise between 1 and
\* min(k, left) bytes, the last of them alone or together with EOF.
UnderlyingRead(left, k) ==
    IF left = 0 THEN {[n |-> 0, err |-> "EOF"]}
    ELSE IF k = 0 THEN {[n |-> 0, err |-> "nil"]}
    ELSE {[n |-> m, err |-> "nil"] : m \in 1..Min(k, left)}
         \cup (IF k >= left THEN {[n |-> left, err |-> "EOF"]} ELSE {})

\* if int64(len(p)) > e.N { p = p[0:e.N] }
ClipUnclipped(N, k) == k

Clip(N, k) == IF k > N THEN N ELSE k

\* if err == io.EOF && e.N > 0 { err = io.ErrUnexpectedEOF }
ShortErr(N, err) == IF err = "EOF" /\ N > 0 THEN "ErrUnexpectedEOF" ELSE err

\* ExactReaderImpl.Read on a reader with count N, a buffer of k bytes, and u
\* the result of the underlying Read (unused when N <= 0): the bytes
\* returned, the error, the new count, and whether the source was read.
ExactRead(N, k, u) ==
    IF N <= 0
    THEN [n |-> 0, err |-> "EOF", N |-> N, touched |-> FALSE]
    ELSE [n |-> u.n, err |-> ShortErr(N - u.n, u.err), N |-> N - u.n,
          touched |-> TRUE]

\* io.Copy(io.Discard, e): Read into the buffer of io.Discard until an
\* error; EOF is success.  The buffer is larger than any count here, and the
\* underlying source hands out all it has.
ExactDrainNone(N, left) == [N |-> N, left |-> left, err |-> "nil"]

RECURSIVE ExactDrain(_, _)
ExactDrain(N, left) ==
    IF N <= 0 THEN [N |-> N, left |-> left, err |-> "nil"]
    ELSE IF left = 0 THEN [N |-> N, left |-> 0, err |-> "ErrUnexpectedEOF"]
    ELSE LET m == Min(N, left)
         IN  ExactDrain(N - m, left - m)

ErInit ==
    \E n \in 0..MaxCount, l \in 0..MaxUnder :
        er = [n0 |-> n, N |-> n, left |-> l, left0 |-> l, total |-> 0,
              op |-> "new", k |-> 0, n |-> 0, err |-> "nil", uerr |-> "nil",
              touched |-> FALSE, prevN |-> n, prevLeft |-> l]

\* One Read call with a buffer of k bytes.
ErRead ==
    /\ er.op # "closed"
    /\ \E k \in 0..MaxBuf :
         \E u \in UnderlyingRead(er.left, IF er.N <= 0 THEN 0 ELSE Clip(er.N, k)) :
            LET r == ExactRead(er.N, k, u)
            IN  er' = [er EXCEPT !.N = r.N,
                                 !.left = IF r.touched THEN er.left - r.n ELSE er.left,
                                 !.total = er.total + r.n,
                                 !.op = "read", !.k = k, !.n = r.n,
                                 !.err = r.err, !.touched = r.touched,
                                 !.uerr = IF r.touched THEN u.err ELSE "nil",
                                 !.prevN = er.N, !.prevLeft = er.left]
    /\ UNCHANGED <<pool, desc, cab, rd, out, nm, msi, vfs, drv>>

\* Close drains what is left of the count.
ErClose ==
    /\ er.op # "closed"
    /\ LET d == ExactDrain(er.N, er.left)
       IN  er' = [er EXCEPT !.N = d.N, !.left = d.left, !.op = "closed",
                            !.k = 0, !.n = 0, !.err = d.err, !.uerr = "nil",
                            !.touched = er.N > 0, !.prevN = er.N,
                            !.prevLeft = er.left]
    /\ UNCHANGED <<pool, desc, cab, rd, out, nm, msi, vfs, drv>>

(***************************************************************************)
(* Section 2.  decodeStrings (msi/msi.go).                                 *)
(***************************************************************************)

\* Most records in a string pool.
MaxRecs == 3

\* Longest string of a pool record.
MaxStrLen == 2

\* Most bytes of string data.
MaxData == 4

\* binary.LittleEndian: the bytes of a u16 and of a u32 (given as a number
\* below 2^31).
LE16(v) == <<v % 256, (v \div 256) % 256>>

LE32(v) == LE16(v % Base) \o LE16((v \div Base) % Base)

\* binary.Read of a u16 / u32 at byte offset p (0-based) of b.
U16AtBigEndian(b, p) == 256 * b[p + 1] + b[p + 2]

U16At(b, p) == b[p + 1] + 256 * b[p + 2]

U32At(b, p) == <<U16At(b, p), U16At(b, p + 2)>>

\* stringData[lo:hi] of a slice of length Len(data) and capacity cp, lo and
\* hi being uint32: Go checks lo <= hi <= cap; the bytes between len and cap
\* are the zeroes of the allocation.
SliceOK(lo, hi, cp) == LeqW(lo, hi) /\ LeqW(hi, Wide(cp, 2))

Slice(data, lo, hi) ==
    [i \in 1..(hi - lo) |-> IF lo + i <= Len(data) THEN data[lo + i] ELSE 0]

\* offset += bigStringLen        (offset and bigStringLen are uint32)
AdvanceNone(offset, n) == offset

Advance(offset, n) == AddW(offset, n)

\* The loop of decodeStrings from pool offset p and data offset `offset`,
\* with strs decoded so far.  panic is TRUE when a panic(err) or a slice
\* bounds fault ends the call.
RECURSIVE DecodeLoop(_, _, _, _, _, _)
DecodeLoop(data, cp, pl, p, offset, strs) ==
    LET rest == Len(pl) - p
        stringLen == U16At(pl, p)
        occNumber == U16At(pl, p + 2)
    IN  IF rest = 0 THEN [panic |-> FALSE, strs |-> strs, offset |-> offset]
        ELSE IF rest < 4 THEN [panic |-> TRUE, strs |-> strs, offset |-> offset]
        ELSE IF occNumber > 0
        THEN IF stringLen = 0 /\ rest < 8
             THEN [panic |-> TRUE, strs |-> strs, offset |-> offset]
             ELSE LET big == IF stringLen = 0 THEN U32At(pl, p + 4)
                                              ELSE Wide(stringLen, 2)
                      q   == IF stringLen = 0 THEN p + 8 ELSE p + 4
                      hi  == AddW(offset, big)
                  IN  IF ~SliceOK(offset, hi, cp)
                      THEN [panic |-> TRUE, strs |-> strs, offset |-> offset]
                      ELSE The({DecodeLoop(data, cp, pl, x[1], x[2], x[3]) :
                                  x \in {<<q, Advance(offset, big),
                                           Append(strs, Slice(data, NatOf(offset),
                                                              NatOf(hi)))>>}})
        ELSE The({DecodeLoop(data, cp, pl, x[1], offset, x[2]) :
                    x \in {<<p + 4, Append(strs, <<>>)>>}})

decodeStrings(data, cp, pl) == DecodeLoop(data, cp, pl, 0, Wide(0, 2), <<>>)

\* A pool record as the encoder of a pool lays it out: len16, refcount and,
\* for len16 = 0 with refcount > 0, the u32 length that follows.
EncRec(r) ==
    LE16(r.len) \o LE16(r.ref)
        \o (IF r.len = 0 /\ r.ref > 0 THEN LE32(r.big) ELSE <<>>)

RECURSIVE EncRecs(_)
EncRecs(recs) ==
    IF recs = <<>> THEN <<>> ELSE EncRec(Head(recs)) \o EncRecs(Tail(recs))

\* The records the inputs are drawn from: refcount 0 with any len16, a short
\* string, and the long form.
RecSet ==
    {[len |-> l, ref |-> 0, big |-> 0] : l \in 0..MaxStrLen}
    \cup {[len |-> l, ref |-> 1, big |-> 0] : l \in 1..MaxStrLen}
    \cup {[len |-> 0, ref |-> 1, big |-> b] : b \in 0..MaxStrLen}

\* String data of n bytes: "abc...".
DataBytes(n) == [i \in 1..n |-> 96 + i]

\* Test_decodeStringVector: stringData "NameTableTypeColumn" and stringPool.
TestData ==
    <<78, 97, 109, 101, 84, 97, 98, 108, 101, 84, 121, 112, 101,
      67, 111, 108, 117, 109, 110>>

TestPool ==
    <<0, 0, 0, 0, 4, 0, 10, 0, 5, 0, 2, 0, 0, 0, 0, 0, 4, 0, 6, 0, 6, 0, 2, 0>>

TestRecs ==
    <<[len |-> 0, ref |-> 0, big |-> 0], [len |-> 4, ref |-> 10, big |-> 0],
      [len |-> 5, ref |-> 2, big |-> 0], [len |-> 0, ref |-> 0, big |-> 0],
      [len |-> 4, ref |-> 6, big |-> 0], [len |-> 6, ref |-> 2, big |-> 0]>>

TestWant ==
    <<<<>>, <<78, 97, 109, 101>>, <<84, 97, 98, 108, 101>>, <<>>,
      <<84, 121, 112, 101>>, <<67, 111, 108, 117, 109, 110>>>>

PoolIdle ==
    [op |-> "idle", data |-> <<>>, cp |-> 0, pl |-> <<>>, recs |-> <<>>,
     list |-> <<>>, lead |-> FALSE,
     res |-> [panic |-> FALSE, strs |-> <<>>, offset |-> Wide(0, 2)]]

\* The inputs of decodeStrings: a pool of up to MaxRecs records over string
\* data of up to MaxData bytes held in a slice of that capacity or one more;
\* and the test vector.
PoolInit ==
    \/ \E n \in 0..MaxRecs, d \in 0..MaxData, slack \in 0..1 :
         \E recs \in [1..n -> RecSet] :
            pool = [PoolIdle EXCEPT !.op = "input", !.data = DataBytes(d),
                                    !.cp = d + slack, !.pl = EncRecs(recs),
                                    !.recs = recs]
    \/ pool = [PoolIdle EXCEPT !.op = "input", !.data = TestData,
                               !.cp = Len(TestData), !.pl = TestPool,
                               !.recs = TestRecs]

\* The pool that emits one (len, refcount = 1) record per string, and the
\* string data that goes with it.
RECURSIVE BuildPool(_)
BuildPool(list) ==
    IF list = <<>> THEN <<>>
    ELSE LE16(Len(Head(list)) % Base) \o LE16(1) \o BuildPool(Tail(list))

RECURSIVE Concat(_)
Concat(list) == IF list = <<>> THEN <<>> ELSE Head(list) \o Concat(Tail(list))

\* The strings of 'a' and 'b' of up to MaxStrLen bytes.
StrSet == UNION {[1..n -> {97, 98}] : n \in 0..MaxStrLen}

\* The inputs of the round trip: up to MaxRecs strings, emitted as they
\* are or after a leading refcount-0 record.
RoundTripInit ==
    \E n \in 0..MaxRecs, lead \in BOOLEAN :
        \E list \in [1..n -> StrSet] :
            pool = [PoolIdle EXCEPT
                       !.op = "input", !.list = list, !.lead = lead,
                       !.data = Concat(list), !.cp = Len(Concat(list)),
                       !.pl = (IF lead THEN LE16(0) \o LE16(0) ELSE <<>>)
                                  \o BuildPool(list)]

\* stringsList := decodeStrings(stringData, stringPool)
PoolDecode ==
    /\ pool.op = "input"
    /\ pool' = [pool EXCEPT !.op = "decoded",
                            !.res = decodeStrings(pool.data, pool.cp, pool.pl)]
    /\ UNCHANGED <<er, desc, cab, rd, out, nm, msi, vfs, drv>>

(***************************************************************************)
(* Section 3.  The Cabinet file and cab.New (cab/cabfile.go).              *)
(*                                                                         *)
(* A source is its bytes.  The payload of an MSZIP block stands for a raw  *)
(* DEFLATE stream, one token per payload byte: a byte below 256 is a       *)
(* literal, TokCopy + d copies the byte d back in the history, TokEnd ends *)
(* the stream.                                                             *)
(***************************************************************************)

\* Size of CFHEADER, of cfHeaderReserve, of CFFOLDER, of the fixed part of
\* CFFILE and of CFDATA, as binary.Size gives them.
HdrSize == 36

ReserveSize == 4

FolderSize == 8

FileSize == 16

DataSize == 8

\* hdrPrevCabinet, hdrNextCabinet, hdrReservePresent
HdrPrevCabinet == 1

HdrNextCabinet == 2

HdrReservePresent == 4

\* compMask, compNone, compMSZIP
CompMask == 15

CompNone == 0

CompMSZIP == 1

\* math.MaxUint16, the current-folder index of a new Cabinet.
MaxUint16 == 65535

\* "MSCF" and "CK"
SigMSCF == <<77, 83, 67, 70>>

SigCK == <<67, 75>>

\* flags & bit # 0, for a bit that is a power of two.
HasFlag(flags, bit) == (flags \div bit) % 2 = 1

Bytes(src, pos, n) == SubSeq(src, pos + 1, pos + n)

\* io.ReadFull of n bytes at pos: whether they are there, and the position
\* after the attempt (a short read takes what there is).
CanRead(src, pos, n) == pos + n <= Len(src)

AfterRead(src, pos, n) == IF CanRead(src, pos, n) THEN pos + n ELSE Max(pos, Len(src))

\* r.Seek(int64(off), io.SeekStart) for a uint32 off: the position, which
\* for an offset of 2^31 or more is past the end of every source here.
SeekTo(off) == IF FitsNat(off) THEN NatOf(off) ELSE 2147483647

\* The layout of a Cabinet file, from a description d of it: CFHEADER, the
\* reserve descriptor and the app-specific bytes when the flag asks for
\* them, the CFFOLDER entries, the CFFILE entries with their names, and the
\* CFDATA blocks of each folder.
LE32W(w) == LE16(w[1]) \o LE16(w[2])

EncFile(f) ==
    LE32W(f.size) \o LE32W(f.uoff) \o LE16(f.ifolder) \o LE16(0) \o LE16(0)
        \o LE16(0) \o f.name \o <<0>>

EncBlock(b) == LE32(0) \o LE16(b.cbData) \o LE16(b.cbUncomp) \o b.payload

RECURSIVE EncFiles(_)
EncFiles(files) ==
    IF files = <<>> THEN <<>> ELSE EncFile(Head(files)) \o EncFiles(Tail(files))

RECURSIVE EncBlocks(_)
EncBlocks(blocks) ==
    IF blocks = <<>> THEN <<>> ELSE EncBlock(Head(blocks)) \o EncBlocks(Tail(blocks))

EncReserve(d) ==
    IF HasFlag(d.flags, HdrReservePresent)
    THEN LE16(d.rsv.cbHeader) \o <<d.rsv.cbFolder, d.rsv.cbData>>
             \o [i \in 1..d.rsv.cbHeader |-> 170]
    ELSE <<>>

FoldersAt(d) == HdrSize + Len(EncReserve(d))

FilesAt(d) == FoldersAt(d) + FolderSize * Len(d.folders)

RECURSIVE DataAt(_, _)
DataAt(d, i) ==
    IF i = 1 THEN FilesAt(d) + Len(EncFiles(d.files))
    ELSE DataAt(d, i - 1) + Len(EncBlocks(d.folders[i - 1].blocks))

RECURSIVE EncFolders(_, _)
EncFolders(d, i) ==
    IF i > Len(d.folders) THEN <<>>
    ELSE LE32(DataAt(d, i)) \o LE16(d.folders[i].ccf) \o LE16(d.folders[i].comp)
             \o EncFolders(d, i + 1)

RECURSIVE EncData(_, _)
EncData(d, i) ==
    IF i > Len(d.folders) THEN <<>>
    ELSE EncBlocks(d.folders[i].blocks) \o EncData(d, i + 1)

EncHeader(d) ==
    d.sig \o LE32W(d.res[1]) \o LE32(0) \o LE32W(d.res[2]) \o LE32(FilesAt(d))
        \o LE32W(d.res[3]) \o <<d.ver[1], d.ver[2]>> \o LE16(Len(d.folders))
        \o LE16(Len(d.files)) \o LE16(d.flags) \o LE16(0) \o LE16(0)

EncCabinet(d) ==
    EncHeader(d) \o EncReserve(d) \o EncFolders(d, 1) \o EncFiles(d.files)
        \o EncData(d, 1)

\* The CFFOLDER entries from pos on: a short entry and a compression other
\* than none and MSZIP in the low four bits are errors.
MaskNone(t) == t

MaskLow(t) == t % (CompMask + 1)

RECURSIVE ReadFolders(_, _, _, _)
ReadFolders(src, pos, n, acc) ==
    IF n = 0 THEN [err |-> "nil", pos |-> pos, fldrs |-> acc]
    ELSE IF ~CanRead(src, pos, FolderSize)
    THEN [err |-> "folder", pos |-> AfterRead(src, pos, FolderSize), fldrs |-> acc]
    ELSE LET fldr == [COFFCabStart |-> U32At(src, pos),
                      CCFData      |-> U16At(src, pos + 4),
                      TypeCompress |-> U16At(src, pos + 6)]
         IN  IF MaskLow(fldr.TypeCompress) \notin {CompNone, CompMSZIP}
             THEN [err |-> "compression", pos |-> pos + FolderSize, fldrs |-> acc]
             ELSE ReadFolders(src, pos + FolderSize, n - 1, Append(acc, fldr))

\* bufio.NewReader(r).ReadBytes(0): the offset of the first NUL at or after
\* pos, or Len(src) when there is none.
RECURSIVE NulAt(_, _)
NulAt(src, pos) ==
    IF pos >= Len(src) THEN Len(src)
    ELSE IF src[pos + 1] = 0 THEN pos
    ELSE NulAt(src, pos + 1)

\* The CFFILE entries from pos on, each followed by its NUL-terminated name.
RECURSIVE ReadFiles(_, _, _, _)
ReadFiles(src, pos, n, acc) ==
    IF n = 0 THEN [err |-> "nil", pos |-> pos, files |-> acc]
    ELSE IF ~CanRead(src, pos, FileSize)
    THEN [err |-> "file", pos |-> AfterRead(src, pos, FileSize), files |-> acc]
    ELSE LET off == pos + FileSize
             nul == NulAt(src, off)
             f   == [CBFile          |-> U32At(src, pos),
                     UOffFolderStart |-> U32At(src, pos + 4),
                     IFolder         |-> U16At(src, pos + 8),
                     name            |-> Bytes(src, off, nul - off)]
         IN  IF nul >= Len(src)
             THEN [err |-> "filename", pos |-> Max(off, Len(src)), files |-> acc]
             ELSE ReadFiles(src, nul + 1, n - 1, Append(acc, f))

\* The sort key of New: (uint64(IFolder) << 32) + uint64(UOffFolderStart).
SortKeyShort(f) == AddW(Extend(<<0, f.IFolder>>, 4), Extend(f.UOffFolderStart, 4))

SortKey(f) == AddW(Shl32(Extend(<<f.IFolder>>, 4)), Extend(f.UOffFolderStart, 4))

\* sort.Slice is not stable: any order of the files in which no file is
\* followed by one with a smaller key.
Sorted(files) ==
    \A i \in 1..(Len(files) - 1) : ~LessW(SortKey(files[i + 1]), SortKey(files[i]))

Orders(n) == {p \in [1..n -> 1..n] : \A i, j \in 1..n : p[i] = p[j] => i = j}

SortSlice(files) ==
    {s \in {[i \in 1..Len(files) |-> files[p[i]]] : p \in Orders(Len(files))} :
        Sorted(s)}

NewFail(err, pos) == [err |-> err, pos |-> pos, fldrs |-> <<>>, files |-> <<>>]

\* New from the folder entries on, which begin at pos.
NewFrom(src, pos) ==
    LET fr == ReadFolders(src, pos, U16At(src, 26), <<>>)
        lr == ReadFiles(src, SeekTo(U32At(src, 16)), U16At(src, 28), <<>>)
    IN  IF fr.err # "nil" THEN {NewFail(fr.err, fr.pos)}
        ELSE IF lr.err # "nil" THEN {NewFail(lr.err, lr.pos)}
        ELSE {[err |-> "nil", pos |-> lr.pos, fldrs |-> fr.fldrs, files |-> s] :
                 s \in SortSlice(lr.files)}

\* The app-specific header is read and dropped.
SkipNone(pos, n) == pos

Skip(pos, n) == pos + n

SigAny(src) == TRUE

\* bytes.Equal(hdr.Signature[:], []byte("MSCF"))
SigOK(src) == Bytes(src, 0, 4) = SigMSCF

\* New(r): the results it can return, each with the position it leaves the
\* source at.  err is "nil" for a Cabinet.
New(src) ==
    IF ~CanRead(src, 0, HdrSize) THEN {NewFail("header", AfterRead(src, 0, HdrSize))}
    ELSE IF ~SigOK(src) THEN {NewFail("signature", HdrSize)}
    ELSE IF U32At(src, 4) # <<0, 0>> \/ U32At(src, 12) # <<0, 0>>
            \/ U32At(src, 20) # <<0, 0>>
    THEN {NewFail("reserved", HdrSize)}
    ELSE IF src[26] # 1 \/ src[25] # 3 THEN {NewFail("version", HdrSize)}
    ELSE IF HasFlag(U16At(src, 30), HdrPrevCabinet)
            \/ HasFlag(U16At(src, 30), HdrNextCabinet)
    THEN {NewFail("multipart", HdrSize)}
    ELSE IF HasFlag(U16At(src, 30), HdrReservePresent)
    THEN IF ~CanRead(src, HdrSize, ReserveSize)
         THEN {NewFail("reserveheader", AfterRead(src, HdrSize, ReserveSize))}
         ELSE IF src[HdrSize + 4] # 0 \/ src[HdrSize + 3] # 0
         THEN {NewFail("reserve", HdrSize + ReserveSize)}
         ELSE IF ~CanRead(src, HdrSize + ReserveSize, U16At(src, HdrSize))
         THEN {NewFail("appheader", Len(src))}
         ELSE NewFrom(src, Skip(HdrSize + ReserveSize, U16At(src, HdrSize)))
    ELSE NewFrom(src, HdrSize)

(***************************************************************************)
(* Section 4.  folderDataReader (cab/cabfile.go).                          *)
(***************************************************************************)

\* The window of the DEFLATE decoder, 32 KiB in compress/flate.
WinSize == 2

\* The tokens of a DEFLATE stream: below TokBase a literal byte, TokBase the
\* end of the stream, TokBase + d a copy of the byte d back.
TokBase == 256

Window(h) == IF Len(h) <= WinSize THEN h ELSE SubSeq(h, Len(h) - WinSize + 1, Len(h))

\* The decoder on the tokens from i on, with history hist: its output and how
\* it ends: EOF at the end token, ErrUnexpectedEOF when the tokens run out,
\* corrupt for a copy from before the history.
RECURSIVE InflateFrom(_, _, _, _)
InflateFrom(tokens, i, hist, acc) ==
    IF i > Len(tokens) THEN [out |-> acc, err |-> "ErrUnexpectedEOF"]
    ELSE IF tokens[i] = TokBase THEN [out |-> acc, err |-> "EOF"]
    ELSE IF tokens[i] < TokBase
    THEN InflateFrom(tokens, i + 1, Window(Append(hist, tokens[i])),
                     Append(acc, tokens[i]))
    ELSE IF tokens[i] - TokBase > Len(hist) THEN [out |-> acc, err |-> "corrupt"]
    ELSE LET b == hist[Len(hist) - (tokens[i] - TokBase) + 1]
         IN  InflateFrom(tokens, i + 1, Window(Append(hist, b)), Append(acc, b))

\* flate.NewReaderDict(r, dict), flate.NewReader(r) being the case dict = <<>>.
Inflate(tokens, dict) == InflateFrom(tokens, 1, Window(dict), <<>>)

\* The bytes the source has from pos on.
Avail(src, pos) == Max(0, Len(src) - pos)

\* c.r.Read of up to k bytes at pos.
SourceRead(src, pos, k) ==
    IF Avail(src, pos) = 0 THEN [n |-> 0, err |-> "EOF"]
    ELSE [n |-> Min(k, Avail(src, pos)), err |-> "nil"]

\* &folderDataReader{r: c.r, fldr: fldr}.  kind is what blockReader is: nil,
\* the raw block reader, or the tee over the decoder.  rawN is the count of
\* rawBlockReader (-1 for nil), brN that of the bounded reader under
\* blockReader, the same object when shared.  The decoder of a block has
\* started once it has read its payload; pend is its output not yet read,
\* enderr what ends it, want what the ExactReader over it still lets through.
\* dicts and outs are history: the dictionary each decoder of this reader was
\* made with, and the bytes read from it.
NewFolderDataReader(idx) ==
    [fldr |-> idx, blockIdx |-> 0, lastBlock |-> <<>>, kind |-> "nil",
     rawN |-> -1, brN |-> 0, shared |-> FALSE, want |-> 0, dict |-> <<>>,
     started |-> FALSE, pend |-> <<>>, enderr |-> "nil", dicts |-> <<>>,
     outs |-> <<>>]

\* f.lastBlock.Next(f.lastBlock.Len()): the bytes handed over, and what the
\* buffer holds afterwards.
KeepBuffer(b) == b

DrainBuffer(b) == <<>>

\* if f.lastBlock.Len() == 0 { flate.NewReader } else { flate.NewReaderDict }
DictOf(lastBlock) == lastBlock

\* nextBlock: the error it returns, the reader and the source position after.
nextBlock(f, pos, src, fldrs) ==
    LET fldr == fldrs[f.fldr + 1]
        d    == ExactDrain(Max(f.rawN, 0), Avail(src, pos))
        p1   == pos + (Max(f.rawN, 0) - d.N)
        f1   == [f EXCEPT !.rawN = IF f.rawN < 0 THEN f.rawN ELSE d.N,
                          !.brN = IF f.shared THEN d.N ELSE f.brN]
        p2   == p1 + DataSize
        cbData   == U16At(src, p1 + 4)
        cbUncomp == U16At(src, p1 + 6)
        f2   == [f1 EXCEPT !.rawN = cbData, !.shared = FALSE]
        sig  == SourceRead(src, p2, Clip(cbData, 2))
    IN  IF f.blockIdx % Base >= fldr.CCFData
        THEN [err |-> "EOF", f |-> f, pos |-> pos]
        ELSE IF ~CanRead(src, p1, DataSize)
        THEN [err |-> "blockheader", f |-> f1, pos |-> AfterRead(src, p1, DataSize)]
        ELSE IF fldr.TypeCompress = CompNone
        THEN IF cbData # cbUncomp
             THEN [err |-> "mismatch", f |-> f2, pos |-> p2]
             ELSE [err |-> "nil", pos |-> p2,
                   f |-> [f2 EXCEPT !.kind = "raw", !.brN = cbData, !.shared = TRUE,
                                    !.blockIdx = f.blockIdx + 1]]
        ELSE IF fldr.TypeCompress = CompMSZIP
        THEN IF sig.n < 2
             THEN [err |-> "sigread", f |-> [f2 EXCEPT !.rawN = cbData - sig.n],
                   pos |-> p2 + sig.n]
             ELSE IF Bytes(src, p2, 2) # SigCK
             THEN [err |-> "badsig", f |-> [f2 EXCEPT !.rawN = cbData - 2],
                   pos |-> p2 + 2]
             ELSE [err |-> "nil", pos |-> p2 + 2,
                   f |-> [f2 EXCEPT !.kind = "zip", !.rawN = cbData - 2,
                                    !.brN = cbData - 2, !.shared = TRUE,
                                    !.want = cbUncomp, !.dict = DictOf(f.lastBlock),
                                    !.lastBlock = DrainBuffer(f.lastBlock),
                                    !.started = FALSE, !.pend = <<>>,
                                    !.enderr = "nil",
                                    !.dicts = Append(f.dicts, DictOf(f.lastBlock)),
                                    !.outs = Append(f.outs, <<>>),
                                    !.blockIdx = f.blockIdx + 1]]
        ELSE [err |-> "unsupported", f |-> f2, pos |-> p2]

\* f.blockReader.Read(p) with len(p) = k >= 1.  A nil blockReader is a panic.
\* The decoder reads the payload through its own buffer, which takes all the
\* bounded reader gives; it hands the end of its stream over with the last
\* bytes (eager) or on the Read after them.
BlockRead(f, pos, src, k, eager) ==
    IF f.kind = "nil" THEN [bytes |-> <<>>, err |-> "panic", f |-> f, pos |-> pos]
    ELSE IF f.kind = "raw"
    THEN LET r == ExactRead(f.brN, k, SourceRead(src, pos, Clip(f.brN, k)))
         IN  [bytes |-> Bytes(src, pos, r.n), err |-> r.err, pos |-> pos + r.n,
              f |-> [f EXCEPT !.brN = r.N,
                              !.rawN = IF f.shared THEN r.N ELSE f.rawN]]
    ELSE IF f.want <= 0 THEN [bytes |-> <<>>, err |-> "EOF", f |-> f, pos |-> pos]
    ELSE LET got  == Min(Max(f.brN, 0), Avail(src, pos))
             dec  == Inflate(Bytes(src, pos, got), f.dict)
             f1   == IF f.started THEN f
                     ELSE [f EXCEPT !.started = TRUE, !.pend = dec.out,
                                    !.enderr = dec.err, !.brN = f.brN - got,
                                    !.rawN = IF f.shared THEN f.brN - got ELSE f.rawN]
             p1   == IF f.started THEN pos ELSE pos + got
             n    == Min(Clip(f1.want, k), Len(f1.pend))
             ferr == IF f1.pend = <<>> THEN f1.enderr
                     ELSE IF n = Len(f1.pend) /\ eager THEN f1.enderr ELSE "nil"
             data == SubSeq(f1.pend, 1, n)
         IN  [bytes |-> data, err |-> ShortErr(f1.want - n, ferr), pos |-> p1,
              f |-> [f1 EXCEPT !.pend = SubSeq(f1.pend, n + 1, Len(f1.pend)),
                               !.want = f1.want - n,
                               !.lastBlock = f1.lastBlock \o data,
                               !.outs[Len(f1.outs)] = f1.outs[Len(f1.outs)] \o data]]

\* if err == io.EOF { return n, f.nextBlock() }
AfterBlock(r, src, fldrs) ==
    The({[bytes |-> r.bytes, err |-> nb.err, f |-> nb.f, pos |-> nb.pos] :
            nb \in {nextBlock(r.f, r.pos, src, fldrs)}})

\* folderDataReader.Read
FdrRead(f, pos, src, fldrs, k, eager) ==
    The({IF r.err = "EOF" THEN AfterBlock(r, src, fldrs) ELSE r :
            r \in {BlockRead(f, pos, src, k, eager)}})

(***************************************************************************)
(* Section 5.  Cabinet: Next, Read and Content (cab/cabfile.go).           *)
(***************************************************************************)

\* A Cabinet before New has run on its source.  fileReader is nil until a
\* Next succeeds; eager is how the DEFLATE decoder of this run reports the
\* end of a stream.
NoReader == [set |-> FALSE, data |-> <<>>]

CabRaw(src) ==
    [st |-> "raw", src |-> src, err |-> "nil", pos |-> 0, fldrs |-> <<>>,
     files |-> <<>>, fileIdx |-> 0, fileReader |-> NoReader,
     folderIdx |-> MaxUint16, folderBuf |-> <<>>, eager |-> TRUE]

\* &Cabinet{r: r, hdr: &hdr, fldrs: fldrs, files: files, folderIdx: math.MaxUint16}
CabOf(src, r) ==
    [CabRaw(src) EXCEPT !.st = IF r.err = "nil" THEN "ready" ELSE "failed",
                        !.err = r.err, !.pos = r.pos, !.fldrs = r.fldrs,
                        !.files = r.files]

\* The source left where it is.
FolderSeekNone(c, idx) == c.pos

\* c.r.Seek(int64(fldr.COFFCabStart), io.SeekStart) in folderData: where the
\* source is afterwards.
FolderSeek(c, idx) == SeekTo(c.fldrs[idx + 1].COFFCabStart)

\* c.folderData(idx): the first nextBlock is called and its error dropped.
folderData(c, idx) ==
    IF idx >= Len(c.fldrs)
    THEN [err |-> "folderrange", f |-> NewFolderDataReader(idx), pos |-> c.pos]
    ELSE The({[err |-> "nil", f |-> nb.f, pos |-> nb.pos] :
                 nb \in {nextBlock(NewFolderDataReader(idx), FolderSeek(c, idx),
                                   c.src, c.fldrs)}})

\* io.ReadAll(r) of a folderDataReader: Read into a buffer larger than any
\* block here until an error; EOF is success.
RECURSIVE ReadAll(_, _, _, _)
ReadAll(c, f, pos, acc) ==
    The({IF r.err = "nil" THEN ReadAll(c, r.f, r.pos, acc \o r.bytes)
         ELSE [data |-> acc \o r.bytes, err |-> IF r.err = "EOF" THEN "nil" ELSE r.err,
               pos |-> r.pos] :
            r \in {FdrRead(f, pos, c.src, c.fldrs, Base, c.eager)}})

SegmentEndOver(f) ==
    AddW(AddW(Extend(f.UOffFolderStart, 4), Extend(f.CBFile, 4)), Wide(1, 4))

\* int(f.UOffFolderStart)+int(f.CBFile), int having 64 bits.
SegmentEnd(f) == AddW(Extend(f.UOffFolderStart, 4), Extend(f.CBFile, 4))

\* f.IFolder != c.folderIdx
SameFolder(c, f) == f.IFolder = c.folderIdx

\* Cabinet.Next: what it returns (a header, EOF, an error; or it panics) and
\* the Cabinet afterwards.
\* The rest of Next, the folder of the file in folderBuf:
\* if len(c.folderBuf) < int(f.UOffFolderStart)+int(f.CBFile) ...
ServeFile(c, f) ==
    IF LessW(Wide(Len(c.folderBuf), 4), SegmentEnd(f))
    THEN [res |-> "err", err |-> "segment", c |-> c]
    ELSE [res |-> "hdr", err |-> "nil",
          c |-> [c EXCEPT !.fileIdx = c.fileIdx + 1,
                          !.fileReader =
                              [set |-> TRUE,
                               data |-> SubSeq(c.folderBuf,
                                               NatOf(f.UOffFolderStart) + 1,
                                               NatOf(f.UOffFolderStart)
                                                   + NatOf(f.CBFile))]]]

\* c.folderBuf, err = io.ReadAll(r), r the reader folderData returned as fd.
LoadFolder(c, f, fd) ==
    The({IF ra.err = "panic"
         THEN [res |-> "panic", err |-> "panic", c |-> [c EXCEPT !.pos = ra.pos]]
         ELSE IF ra.err # "nil"
         THEN [res |-> "err", err |-> ra.err,
               c |-> [c EXCEPT !.folderBuf = ra.data, !.pos = ra.pos]]
         ELSE ServeFile([c EXCEPT !.folderBuf = ra.data, !.pos = ra.pos], f) :
            ra \in {ReadAll(c, fd.f, fd.pos, <<>>)}})

\* c.folderIdx = f.IFolder; r, err = c.folderData(c.folderIdx)
OpenFolder(c, f) ==
    The({IF fd.err # "nil" THEN [res |-> "err", err |-> fd.err, c |-> c]
         ELSE LoadFolder(c, f, fd) :
            fd \in {folderData(c, f.IFolder)}})

\* Cabinet.Next: what it returns (a header, EOF, an error; or it panics) and
\* the Cabinet afterwards.
CabinetNext(c) ==
    IF c.fileIdx >= Len(c.files) THEN [res |-> "eof", err |-> "EOF", c |-> c]
    ELSE IF SameFolder(c, c.files[c.fileIdx + 1])
    THEN ServeFile(c, c.files[c.fileIdx + 1])
    ELSE OpenFolder([c EXCEPT !.folderIdx = c.files[c.fileIdx + 1].IFolder],
                    c.files[c.fileIdx + 1])

\* Cabinet.Read with a buffer of k bytes: bytes.Reader.Read, or the panic of
\* a nil fileReader.
CabinetRead(c, k) ==
    IF ~c.fileReader.set THEN [res |-> "panic", err |-> "panic", bytes |-> <<>>, c |-> c]
    ELSE IF c.fileReader.data = <<>>
    THEN [res |-> "data", err |-> "EOF", bytes |-> <<>>, c |-> c]
    ELSE LET n == Min(k, Len(c.fileReader.data))
         IN  [res |-> "data", err |-> "nil", bytes |-> SubSeq(c.fileReader.data, 1, n),
              c |-> [c EXCEPT !.fileReader.data =
                                  SubSeq(c.fileReader.data, n + 1,
                                         Len(c.fileReader.data))]]

\* int64(x) of a uint32, kept below 2^31: no folder here is that long.
Int64(w) == IF FitsNat(w) THEN NatOf(w) ELSE 2147483647

\* io.CopyN(io.Discard, data, n): Read up to n bytes; nil when n were read,
\* whatever the last Read reported, else the error, EOF included.
CopyNone(c, f, pos, n) == [err |-> "nil", f |-> f, pos |-> pos]

RECURSIVE CopyN(_, _, _, _)
CopyN(c, f, pos, n) ==
    IF n <= 0 THEN [err |-> "nil", f |-> f, pos |-> pos]
    ELSE The({IF r.err = "nil" THEN CopyN(c, r.f, r.pos, n - Len(r.bytes))
              ELSE IF r.err # "panic" /\ Len(r.bytes) = n
              THEN [err |-> "nil", f |-> r.f, pos |-> r.pos]
              ELSE [err |-> r.err, f |-> r.f, pos |-> r.pos] :
                 r \in {FdrRead(f, pos, c.src, c.fldrs, Min(n, Base), c.eager)}})

\* for _, f := range c.files { if f.name != name { continue } ...
\* the index of the first file of that name, 0 when there is none.
FindAny(files, name, i) == IF Len(files) > 0 THEN 1 ELSE 0

RECURSIVE FindFrom(_, _, _)
FindFrom(files, name, i) ==
    IF i > Len(files) THEN 0
    ELSE IF files[i].name = name THEN i
    ELSE FindFrom(files, name, i + 1)

\* A reader returned by Content: ExactReader(data, int64(f.CBFile)) over the
\* folderDataReader f.  idx is the file it was made for (0: no reader).
NoContent == [idx |-> 0, N |-> 0, f |-> NewFolderDataReader(0)]

\* io.CopyN(io.Discard, data, int64(f.UOffFolderStart)) and
\* return ExactReader(data, int64(f.CBFile)), nil; f is c.files[i].
SeekContent(c, i, fd) ==
    The({IF cn.err = "panic"
         THEN [res |-> "panic", err |-> "panic", rd |-> NoContent, pos |-> cn.pos]
         ELSE IF cn.err # "nil"
         THEN [res |-> "err", err |-> cn.err, rd |-> NoContent, pos |-> cn.pos]
         ELSE [res |-> "reader", err |-> "nil", pos |-> cn.pos,
               rd |-> [idx |-> i, N |-> Int64(c.files[i].CBFile), f |-> cn.f]] :
            cn \in {CopyN(c, fd.f, fd.pos, Int64(c.files[i].UOffFolderStart))}})

\* data, err := c.folderData(f.IFolder), f being c.files[i]
OpenContent(c, i) ==
    The({IF fd.err # "nil"
         THEN [res |-> "err", err |-> fd.err, rd |-> NoContent, pos |-> c.pos]
         ELSE SeekContent(c, i, fd) :
            fd \in {folderData(c, c.files[i].IFolder)}})

\* Cabinet.Content(name): an error, a panic, or a reader.
CabinetContent(c, name) ==
    IF FindFrom(c.files, name, 1) = 0
    THEN [res |-> "err", err |-> "notfound", rd |-> NoContent, pos |-> c.pos]
    ELSE OpenContent(c, FindFrom(c.files, name, 1))

\* Read with a buffer of k bytes on a reader returned by Content.
ContentRead(c, e, k) ==
    IF e.N <= 0
    THEN [bytes |-> <<>>, err |-> "EOF", rd |-> e, pos |-> c.pos]
    ELSE The({LET r == ExactRead(e.N, k, [n |-> Len(u.bytes), err |-> u.err])
              IN  [bytes |-> u.bytes, err |-> r.err, pos |-> u.pos,
                   rd |-> [e EXCEPT !.N = r.N, !.f = u.f]] :
                 u \in {FdrRead(e.f, c.pos, c.src, c.fldrs, Clip(e.N, k), c.eager)}})

\* Most folders of a header given to New.
MaxNewFolders == 2

\* A valid description, and the ways the inputs of New depart from it.
NoReserve == [cbHeader |-> 0, cbFolder |-> 0, cbData |-> 0]

NewFolder(comp) == [comp |-> comp, ccf |-> 1, blocks |-> <<>>]

NewFile(u, i, c) ==
    [size |-> Wide(1, 2), uoff |-> u, ifolder |-> i, name |-> <<c>>]

NewDescs ==
    {[sig |-> sig, res |-> res, ver |-> ver, flags |-> fl.flags, rsv |-> fl.rsv,
      folders |-> fo, files |-> fi] :
        sig \in {SigMSCF, <<77, 83, 67, 71>>},
        res \in {<<Wide(0, 2), Wide(0, 2), Wide(0, 2)>>,
                 <<Wide(1, 2), Wide(0, 2), Wide(0, 2)>>,
                 <<Wide(0, 2), <<0, 1>>, Wide(0, 2)>>,
                 <<Wide(0, 2), Wide(0, 2), Wide(256, 2)>>},
        ver \in {<<3, 1>>, <<2, 1>>, <<3, 0>>},
        fl \in {[flags |-> f, rsv |-> NoReserve] :
                   f \in {0, HdrPrevCabinet, HdrNextCabinet}}
               \cup {[flags |-> HdrReservePresent,
                      rsv |-> [cbHeader |-> h, cbFolder |-> a, cbData |-> b]] :
                       h \in {0, 2}, a \in {0, 1}, b \in {0, 1}},
        fo \in UNION {[1..n -> {NewFolder(c) : c \in {0, 1, 3, 17}}] :
                         n \in 0..MaxNewFolders},
        fi \in {<<>>, <<NewFile(Wide(0, 2), 1, 98), NewFile(<<0, 1>>, 0, 97)>>}}

\* The source of a description, whole or cut short.
Cuts(b) == {b, SubSeq(b, 1, Len(b) - 1), SubSeq(b, 1, HdrSize - 1), SubSeq(b, 1, 4)}

NewInit ==
    \E d \in NewDescs :
        \E b \in Cuts(EncCabinet(d)) :
            /\ desc = d
            /\ cab = CabRaw(b)

\* cab.New(r)
CabNew ==
    /\ cab.st = "raw"
    /\ \E r \in New(cab.src) : cab' = CabOf(cab.src, r)
    /\ UNCHANGED <<desc, er, pool, rd, out, nm, msi, vfs, drv>>

(***************************************************************************)
(* Section 6.  A Cabinet in use: Next, Read, Content and reads of the      *)
(* reader Content returned, in any order.                                  *)
(***************************************************************************)

\* No reader yet.  got is history: the bytes read from the reader.  It is
\* clean while no other call has moved the source under it.
RdIdle ==
    [idx |-> 0, N |-> 0, f |-> NewFolderDataReader(0), got |-> <<>>,
     st |-> "none", clean |-> TRUE]

\* No call yet.  hdrs is history: for each header Next returned, the index
\* of its file and the bytes Read was set up to deliver; got is what Read
\* has delivered since the last header.
OutIdle ==
    [op |-> "none", name |-> <<>>, res |-> "none", err |-> "nil", bytes |-> <<>>,
     hdrs |-> <<>>, got |-> <<>>]

\* The lengths of the buffers handed to a Read.
ReadBufs == {1, 2}

\* Most files of a Cabinet in use.
MaxCabFiles == 2

\* The name no file has.
Missing == <<122>>

Names(files) == {files[i].name : i \in 1..Len(files)}

Alive == cab.st = "ready" /\ out.res # "panic"

\* hdr, err := c.Next()
CabNext ==
    /\ Alive
    /\ LET r == CabinetNext(cab)
       IN  /\ cab' = r.c
           /\ out' = [out EXCEPT
                  !.op = "Next", !.name = <<>>, !.res = r.res, !.err = r.err,
                  !.bytes = <<>>,
                  !.hdrs = IF r.res = "hdr"
                           THEN Append(out.hdrs, [idx |-> cab.fileIdx + 1,
                                                  data |-> r.c.fileReader.data])
                           ELSE out.hdrs,
                  !.got = IF r.res = "hdr" THEN <<>> ELSE out.got]
           /\ rd' = [rd EXCEPT !.clean = rd.clean /\ r.c.pos = cab.pos]
    /\ UNCHANGED <<er, pool, desc, nm, msi, vfs, drv>>

\* n, err := c.Read(p) with len(p) = k
CabRead ==
    /\ Alive
    /\ \E k \in ReadBufs :
           LET r == CabinetRead(cab, k)
           IN  /\ cab' = r.c
               /\ out' = [out EXCEPT !.op = "Read", !.name = <<>>, !.res = r.res,
                                     !.err = r.err, !.bytes = r.bytes,
                                     !.got = out.got \o r.bytes]
    /\ UNCHANGED <<er, pool, desc, rd, nm, msi, vfs, drv>>

\* r, err := c.Content(name)
CabContent ==
    /\ Alive
    /\ \E name \in Names(cab.files) \cup {Missing} :
           LET r == CabinetContent(cab, name)
           IN  /\ cab' = [cab EXCEPT !.pos = r.pos]
               /\ out' = [out EXCEPT !.op = "Content", !.name = name, !.res = r.res,
                                     !.err = r.err, !.bytes = <<>>]
               /\ rd' = IF r.res = "reader"
                        THEN [idx |-> r.rd.idx, N |-> r.rd.N, f |-> r.rd.f,
                              got |-> <<>>, st |-> "open", clean |-> TRUE]
                        ELSE [rd EXCEPT !.clean = rd.clean /\ r.pos = cab.pos]
    /\ UNCHANGED <<er, pool, desc, nm, msi, vfs, drv>>

\* n, err := r.Read(p) with len(p) = k, on the reader Content returned, until
\* its first error.
CabContentRead ==
    /\ Alive
    /\ rd.st = "open"
    /\ \E k \in ReadBufs :
           LET r == ContentRead(cab, [idx |-> rd.idx, N |-> rd.N, f |-> rd.f], k)
           IN  /\ cab' = [cab EXCEPT !.pos = r.pos]
               /\ rd' = [rd EXCEPT !.N = r.rd.N, !.f = r.rd.f,
                                   !.got = rd.got \o r.bytes,
                                   !.st = IF r.err = "nil" THEN "open"
                                          ELSE IF r.err = "EOF" THEN "eof"
                                          ELSE IF r.err = "panic" THEN "panic"
                                          ELSE "err"]
               /\ out' = [out EXCEPT !.op = "ContentRead", !.name = <<>>,
                                     !.res = IF r.err = "panic" THEN "panic" ELSE "data",
                                     !.err = r.err, !.bytes = r.bytes]
    /\ UNCHANGED <<er, pool, desc, nm, msi, vfs, drv>>

\* The folders of the Cabinets in use.  A payload of an MSZIP block is the
\* signature and one token per position.
Blk(payload) == [cbData |-> Len(payload), cbUncomp |-> Len(payload), payload |-> payload]

Zip(tokens, n) ==
    [cbData |-> Len(tokens) + 2, cbUncomp |-> n, payload |-> SigCK \o tokens]

Folder(comp, blocks) == [comp |-> comp, ccf |-> Len(blocks), blocks |-> blocks]

FolderNone2 == Folder(CompNone, <<Blk(<<10>>), Blk(<<11, 12>>)>>)

FolderNone1 == Folder(CompNone, <<Blk(<<13, 14>>)>>)

FolderEmpty == Folder(CompNone, <<>>)

FolderMismatch ==
    Folder(CompNone, <<[cbData |-> 2, cbUncomp |-> 1, payload |-> <<15, 16>>]>>)

FolderZip2 ==
    Folder(CompMSZIP, <<Zip(<<20, 21, TokBase>>, 2),
                        Zip(<<TokBase + 2, 22, TokBase>>, 2)>>)

FolderBadSig ==
    Folder(CompMSZIP, <<Zip(<<23, TokBase>>, 1),
                        [cbData |-> 3, cbUncomp |-> 1, payload |-> <<67, 88, 24>>],
                        Zip(<<25, TokBase>>, 1)>>)

FolderUpper == Folder(CompMSZIP + 16, <<Zip(<<26, TokBase>>, 1)>>)

\* The folder lists, each with how many bytes of the file are missing at its
\* end, and the ways the decoder may report the end of a stream (both, where
\* there is a stream).
CabFolders ==
    {[folders |-> <<FolderNone2, FolderZip2>>, cut |-> 0, eager |-> BOOLEAN],
     [folders |-> <<FolderEmpty, FolderMismatch>>, cut |-> 0, eager |-> {TRUE}],
     [folders |-> <<FolderNone1, FolderNone1>>, cut |-> 5, eager |-> {TRUE}],
     [folders |-> <<FolderNone1, FolderBadSig>>, cut |-> 0, eager |-> BOOLEAN],
     [folders |-> <<FolderUpper>>, cut |-> 0, eager |-> {TRUE}]}

CabFile(name, ifolder, uoff, size) ==
    [size |-> size, uoff |-> uoff, ifolder |-> ifolder, name |-> <<name>>]

\* The files: overlapping ones, two of one name, a folder that is not there,
\* a segment past the end of its folder.
CabFilePool ==
    <<CabFile(99, 1, Wide(1, 2), Wide(2, 2)),
      CabFile(97, 0, Wide(0, 2), Wide(2, 2)),
      CabFile(101, 5, Wide(0, 2), Wide(1, 2)),
      CabFile(97, 1, Wide(0, 2), Wide(1, 2)),
      CabFile(102, 0, <<0, 1>>, Wide(1, 2)),
      CabFile(98, 0, Wide(1, 2), Wide(2, 2))>>

\* The files of the pool at the indices S, in the order of the pool or against
\* it.
RECURSIVE Pick(_, _)
Pick(S, up) ==
    IF S = {} THEN <<>>
    ELSE LET i == CHOOSE j \in S : \A m \in S : IF up THEN j <= m ELSE j >= m
         IN  <<CabFilePool[i]>> \o Pick(S \ {i}, up)

CabFileLists ==
    {Pick(S, up) : S \in {T \in SUBSET (1..Len(CabFilePool)) :
                              Cardinality(T) \in 1..MaxCabFiles},
                   up \in BOOLEAN}

CabDescs ==
    {[sig |-> SigMSCF, res |-> <<Wide(0, 2), Wide(0, 2), Wide(0, 2)>>,
      ver |-> <<3, 1>>, flags |-> 0, rsv |-> NoReserve, folders |-> fo.folders,
      files |-> fi] :
        fo \in CabFolders,
        fi \in CabFileLists}

ShapeOf(d) == CHOOSE fo \in CabFolders : fo.folders = d.folders

\* The state after c, err := cab.New(r) with err == nil.
CabInit ==
    \E d \in CabDescs :
        LET b   == EncCabinet(d)
            src == SubSeq(b, 1, Len(b) - ShapeOf(d).cut)
        IN  \E r \in New(src) :
                \E eager \in ShapeOf(d).eager :
                    /\ r.err = "nil"
                    /\ desc = d
                    /\ cab = [CabOf(src, r) EXCEPT !.eager = eager]
                    /\ rd = RdIdle
                    /\ out = OutIdle

\* Most blocks of an MSZIP folder.
MaxZipBlocks == 3

\* The token streams of the blocks of the MSZIP folders of one and two
\* blocks: literals, copies from one and two bytes back, an empty stream.
ZipStreams ==
    {<<TokBase>>, <<30, TokBase>>, <<31, 32, TokBase>>, <<TokBase + 1, TokBase>>,
     <<TokBase + 2, TokBase>>, <<34, TokBase + 2, TokBase>>}

\* The longer folders.  Their first block is shorter than the window or
\* fills it; a block between the first and the last has no output, is
\* shorter than the window or fills it; the last block copies from one and
\* two bytes back.
ZipFirst == {<<30, TokBase>>, <<31, 32, TokBase>>}

ZipMiddle == {<<TokBase>>, <<30, TokBase>>, <<31, 32, TokBase>>}

ZipLast == {<<TokBase + 1, TokBase>>, <<TokBase + 2, TokBase>>, <<34, TokBase + 2, TokBase>>}

\* The blocks of a folder, in order.
ZipLists ==
    {<<f>> : f \in ZipStreams}
        \cup {<<f, l>> : f \in ZipStreams, l \in ZipStreams}
        \cup {<<f>> \o m \o <<l>> :
                  f \in ZipFirst, l \in ZipLast,
                  m \in UNION {[1..n -> ZipMiddle] : n \in 1..(MaxZipBlocks - 2)}}

\* The content the streams were made from: each decoded with the window
\* running on from the stream before.  ok says every copy had its source.
RECURSIVE Original(_, _, _)
Original(streams, i, hist) ==
    IF i > Len(streams) THEN [outs |-> <<>>, ok |-> TRUE]
    ELSE LET r    == InflateFrom(streams[i], 1, hist, <<>>)
             rest == Original(streams, i + 1, Window(hist \o r.out))
         IN  [outs |-> <<r.out>> \o rest.outs, ok |-> r.err = "EOF" /\ rest.ok]

RECURSIVE Flat(_)
Flat(ss) == IF ss = <<>> THEN <<>> ELSE Head(ss) \o Flat(Tail(ss))

ZipFolder(streams) ==
    LET o == Original(streams, 1, <<>>).outs
    IN  Folder(CompMSZIP, [i \in 1..Len(streams) |-> Zip(streams[i], Len(o[i]))])

\* One MSZIP folder, a file that is all of it and a file from its second byte
\* on.
ZipDescs ==
    {LET n == Len(Flat(Original(ss, 1, <<>>).outs))
     IN  [sig |-> SigMSCF, res |-> <<Wide(0, 2), Wide(0, 2), Wide(0, 2)>>,
          ver |-> <<3, 1>>, flags |-> 0, rsv |-> NoReserve,
          folders |-> <<ZipFolder(ss)>>,
          files |-> <<CabFile(97, 0, Wide(0, 2), Wide(n, 2)),
                      CabFile(98, 0, Wide(Min(1, n), 2), Wide(n - Min(1, n), 2))>>] :
        ss \in ZipLists}

ZipInit ==
    \E d \in ZipDescs :
        \E r \in New(EncCabinet(d)) :
            \E eager \in BOOLEAN :
                /\ r.err = "nil"
                /\ desc = d
                /\ cab = [CabOf(EncCabinet(d), r) EXCEPT !.eager = eager]
                /\ rd = RdIdle
                /\ out = OutIdle

(***************************************************************************)
(* Section 7.  decodeName (the msi package, cab/exactreader.go).           *)
(***************************************************************************)

\* []rune("0123456789ABCDEFGHIJKLMNOPQRSTUVWXYZabcdefghijklmnopqrstuvwxyz._!")
msiNameAlphabet ==
    [i \in 1..10 |-> 47 + i] \o [i \in 1..26 |-> 64 + i] \o [i \in 1..26 |-> 96 + i]
        \o <<46, 95, 33>>

PairBase == 14336

SingleBase == 18432

SingleLast == 18496

\* x & 0x3F
Low6None(x) == x

Low6(x) == x % 64

\* msiNameAlphabet[i], a panic when i is not an index of it.
Glyph(i) ==
    IF i >= 0 /\ i < Len(msiNameAlphabet)
    THEN [runes |-> <<msiNameAlphabet[i + 1]>>, panic |-> FALSE]
    ELSE [runes |-> <<>>, panic |-> TRUE]

\* What one rune of the name appends.
DecodeRune(r) ==
    IF r >= PairBase /\ r < SingleBase
    THEN [runes |-> Glyph(Low6(r - PairBase)).runes
                        \o Glyph(Low6((r - PairBase) \div 64)).runes,
          panic |-> Glyph(Low6(r - PairBase)).panic
                        \/ Glyph(Low6((r - PairBase) \div 64)).panic]
    ELSE IF r >= SingleBase /\ r <= SingleLast THEN Glyph(r - SingleBase)
    ELSE [runes |-> <<r>>, panic |-> FALSE]

\* decodeName(name), name as its runes.
RECURSIVE decodeName(_)
decodeName(name) ==
    IF name = <<>> THEN [runes |-> <<>>, panic |-> FALSE]
    ELSE LET h == DecodeRune(Head(name))
             t == decodeName(Tail(name))
         IN  [runes |-> h.runes \o t.runes, panic |-> h.panic \/ t.panic]

\* The names: as indices of glyphs, to be encoded, and as runes.
MaxNameLen == 3

GlyphSample == {0, 1, 35, 62, 63, 64}

RuneSample == {65, 14335, 14336, 14401, 18431, 18432, 18433, 18495, 18496, 18497, 1114111}

\* A string over the alphabet, from the indices of its glyphs.
TextOf(s) == [i \in 1..Len(s) |-> msiNameAlphabet[s[i] + 1]]

\* The encoding that packs every pair of glyphs into 0x3800 + i + 64*j, a
\* last odd glyph into 0x4800 + i.
RECURSIVE EncodeAllPairs(_)
EncodeAllPairs(s) ==
    IF s = <<>> THEN <<>>
    ELSE IF Len(s) = 1 THEN <<SingleBase + s[1]>>
    ELSE <<PairBase + s[1] + 64 * s[2]>> \o EncodeAllPairs(SubSeq(s, 3, Len(s)))

\* The encoding that packs a pair only of glyphs below 64, and writes any
\* other glyph as 0x4800 + i.
RECURSIVE EncodeName(_)
EncodeName(s) ==
    IF s = <<>> THEN <<>>
    ELSE IF Len(s) >= 2 /\ s[1] < 64 /\ s[2] < 64
    THEN <<PairBase + s[1] + 64 * s[2]>> \o EncodeName(SubSeq(s, 3, Len(s)))
    ELSE <<SingleBase + s[1]>> \o EncodeName(Tail(s))

NameInit ==
    \/ \E s \in UNION {[1..n -> GlyphSample] : n \in 0..MaxNameLen} :
           \E kind \in {"allpairs", "packed"} :
               nm = [st |-> "new", kind |-> kind, s |-> s,
                     name |-> IF kind = "packed" THEN EncodeName(s)
                              ELSE EncodeAllPairs(s),
                     res |-> <<>>, panic |-> FALSE]
    \/ \E u \in UNION {[1..n -> RuneSample] : n \in 1..2} :
           nm = [st |-> "new", kind |-> "runes", s |-> <<>>, name |-> u,
                 res |-> <<>>, panic |-> FALSE]

\* name := decodeName(entry.Name)
NameDecode ==
    /\ nm.st = "new"
    /\ nm' = [nm EXCEPT !.st = "done", !.res = decodeName(nm.name).runes,
                        !.panic = decodeName(nm.name).panic]
    /\ UNCHANGED <<er, pool, desc, cab, rd, out, msi, vfs, drv>>

(***************************************************************************)
(* Section 8.  Strings, paths and sort.SliceStable as msi.Parse uses them. *)
(* A string is the sequence of its bytes.                                  *)
(***************************************************************************)

Slash == 47

Bar == 124

Dot == <<46>>

DotDot == <<46, 46>>

TARGETDIR == <<84, 65, 82, 71, 69, 84, 68, 73, 82>>

\* The index of the first byte c of s, 0 when there is none.
RECURSIVE IndexFrom(_, _, _)
IndexFrom(s, c, i) ==
    IF i > Len(s) THEN 0 ELSE IF s[i] = c THEN i ELSE IndexFrom(s, c, i + 1)

\* strings.SplitN(name, "|", 2), the last part.
getModernName(name) ==
    IF IndexFrom(name, Bar, 1) = 0 THEN name
    ELSE SubSeq(name, IndexFrom(name, Bar, 1) + 1, Len(name))

\* strings.Split(s, sep) for a separator of one byte.
RECURSIVE SplitAt(_, _)
SplitAt(s, c) ==
    IF IndexFrom(s, c, 1) = 0 THEN <<s>>
    ELSE <<SubSeq(s, 1, IndexFrom(s, c, 1) - 1)>>
             \o SplitAt(SubSeq(s, IndexFrom(s, c, 1) + 1, Len(s)), c)

\* strings.Join(segs, "/")
RECURSIVE JoinSlash(_)
JoinSlash(segs) ==
    IF segs = <<>> THEN <<>>
    ELSE IF Len(segs) = 1 THEN segs[1]
    ELSE segs[1] \o <<Slash>> \o JoinSlash(Tail(segs))

\* path.Clean on the elements of a path: "" and "." go, ".." takes the
\* element before it, or goes at the start of a rooted path.
RECURSIVE CleanSegs(_, _, _)
CleanSegs(segs, rooted, kept) ==
    IF segs = <<>> THEN kept
    ELSE IF Head(segs) = <<>> \/ Head(segs) = Dot
    THEN CleanSegs(Tail(segs), rooted, kept)
    ELSE IF Head(segs) = DotDot
    THEN IF kept # <<>> /\ kept[Len(kept)] # DotDot
         THEN CleanSegs(Tail(segs), rooted, SubSeq(kept, 1, Len(kept) - 1))
         ELSE IF rooted THEN CleanSegs(Tail(segs), rooted, kept)
         ELSE CleanSegs(Tail(segs), rooted, Append(kept, DotDot))
    ELSE CleanSegs(Tail(segs), rooted, Append(kept, Head(segs)))

Clean(p) ==
    IF p = <<>> THEN Dot
    ELSE LET rooted == p[1] = Slash
             body   == JoinSlash(CleanSegs(SplitAt(p, Slash), rooted, <<>>))
         IN  IF rooted THEN <<Slash>> \o body
             ELSE IF body = <<>> THEN Dot ELSE body

\* path.Join(elem...): the elements that are not empty, joined and cleaned;
\* "" when there is none.
NonEmpty(elems) == SelectSeq(elems, LAMBDA e : e # <<>>)

PathJoin(elems) ==
    IF NonEmpty(elems) = <<>> THEN <<>> ELSE Clean(JoinSlash(NonEmpty(elems)))

\* sort.SliceStable(pathParts, func(i, j int) bool { return i > j }): the
\* comparison sees the indices, not the elements.
LessForward(i, j) == i < j

Less(i, j) == i > j

\* The size of the blocks sort.SliceStable sorts by insertion.
BlockSize == 20

Swap(d, i, j) == [d EXCEPT ![i + 1] = d[j + 1], ![j + 1] = d[i + 1]]

\* for j := i; j > a && less(j, j-1); j-- { swap(j, j-1) }
RECURSIVE Sift(_, _, _)
Sift(d, a, j) ==
    IF j > a /\ Less(j, j - 1)
    THEN The({Sift(x, a, j - 1) : x \in {Swap(d, j, j - 1)}})
    ELSE d

\* insertionSort(data, a, b), from i.
RECURSIVE insertionSort(_, _, _, _)
insertionSort(d, a, i, b) ==
    IF i < b THEN The({insertionSort(x, a, i + 1, b) : x \in {Sift(d, a, i)}})
    ELSE d

\* The blocks of the first pass of stable.
RECURSIVE SortBlocks(_, _, _, _)
SortBlocks(d, a, b, n) ==
    IF b <= n
    THEN The({SortBlocks(x, b, b + BlockSize, n) : x \in {insertionSort(d, a, a + 1, b)}})
    ELSE insertionSort(d, a, a + 1, n)

\* The binary searches of symMerge; they compare indices only.
RECURSIVE SearchLeft(_, _, _)
SearchLeft(i, j, a) ==
    IF i < j
    THEN IF Less((i + j) \div 2, a) THEN SearchLeft((i + j) \div 2 + 1, j, a)
         ELSE SearchLeft(i, (i + j) \div 2, a)
    ELSE i

RECURSIVE SearchRight(_, _, _)
SearchRight(i, j, m) ==
    IF i < j
    THEN IF ~Less(m, (i + j) \div 2) THEN SearchRight((i + j) \div 2 + 1, j, m)
         ELSE SearchRight(i, (i + j) \div 2, m)
    ELSE i

RECURSIVE SearchMid(_, _, _)
SearchMid(start, r, p) ==
    IF start < r
    THEN IF ~Less(p - (start + r) \div 2, (start + r) \div 2)
         THEN SearchMid((start + r) \div 2 + 1, r, p)
         ELSE SearchMid(start, (start + r) \div 2, p)
    ELSE start

\* for k := a; k < i-1; k++ { swap(k, k+1) }: data[a] moves up to i-1.
MoveUp(d, a, i) ==
    IF i - 1 <= a THEN d
    ELSE [k \in 1..Len(d) |->
             IF k - 1 >= a /\ k - 1 < i - 1 THEN d[k + 1]
             ELSE IF k - 1 = i - 1 THEN d[a + 1] ELSE d[k]]

\* for k := m; k > i; k-- { swap(k, k-1) }: data[m] moves down to i.
MoveDown(d, m, i) ==
    IF m <= i THEN d
    ELSE [k \in 1..Len(d) |->
             IF k - 1 > i /\ k - 1 <= m THEN d[k - 1]
             ELSE IF k - 1 = i THEN d[m + 1] ELSE d[k]]

\* rotate(data, a, m, b): the blocks data[a:m] and data[m:b] change places.
rotate(d, a, m, b) ==
    [k \in 1..Len(d) |->
        IF k - 1 >= a /\ k - 1 < a + (b - m) THEN d[k + (m - a)]
        ELSE IF k - 1 >= a + (b - m) /\ k - 1 < b THEN d[k - (b - m)]
        ELSE d[k]]

RECURSIVE symMerge(_, _, _, _)
symMerge(d, a, m, b) ==
    IF m - a = 1 THEN MoveUp(d, a, SearchLeft(m, b, a))
    ELSE IF b - m = 1 THEN MoveDown(d, m, SearchRight(a, m, m))
    ELSE LET mid   == (a + b) \div 2
             n     == mid + m
             start == IF m > mid THEN SearchMid(n - b, mid, n - 1)
                      ELSE SearchMid(a, m, n - 1)
             end   == n - start
         IN  The({The({IF mid < end /\ end < b THEN symMerge(y, mid, end, b) ELSE y :
                         y \in {IF a < start /\ start < mid
                                THEN symMerge(x, a, start, mid) ELSE x}}) :
                    x \in {IF start < m /\ m < end THEN rotate(d, start, m, end)
                           ELSE d}})

\* One pass of merges of blocks of size bs.
RECURSIVE MergePass(_, _, _, _, _)
MergePass(d, a, b, n, bs) ==
    IF b <= n
    THEN The({MergePass(x, b, b + 2 * bs, n, bs) : x \in {symMerge(d, a, a + bs, b)}})
    ELSE IF a + bs < n THEN symMerge(d, a, a + bs, n)
    ELSE d

RECURSIVE Merges(_, _, _)
Merges(d, n, bs) ==
    IF bs < n THEN The({Merges(x, n, 2 * bs) : x \in {MergePass(d, 0, 2 * bs, n, bs)}})
    ELSE d

SliceStable(d) ==
    The({Merges(x, Len(d), BlockSize) : x \in {SortBlocks(d, 0, BlockSize, Len(d))}})

(***************************************************************************)
(* Section 9.  parseTable and msi.Parse (the msi package,                  *)
(* cab/exactreader.go).  A row is the sequence of its fields, a string     *)
(* field a string, a uint16 field a number.                                *)
(***************************************************************************)

\* The kinds of the fields of Directory, Component, File and Media.
DirectoryCols == <<"s", "s", "s">>

ComponentCols == <<"s", "s", "s", "u", "s", "s">>

FileCols == <<"s", "s", "s", "u", "u", "s", "s", "u", "u", "u">>

MediaCols == <<"u", "u", "u", "s", "s", "s", "s">>

\* reflect.New(...).Elem(): the zero row.
ZeroRow(cols) == [j \in 1..Len(cols) |-> IF cols[j] = "s" THEN <<>> ELSE 0]

\* The inner loop of parseTable for row i (0-based): rowVal after its fields
\* are set.  A string index outside the table leaves the field as it was.
SetRow(data, nRows, stringTable, cols, rowVal, i) ==
    [j \in 1..Len(cols) |->
        IF cols[j] = "s"
        THEN IF data[nRows * (j - 1) + i + 1] >= Len(stringTable) THEN rowVal[j]
             ELSE stringTable[data[nRows * (j - 1) + i + 1] + 1]
        ELSE data[nRows * (j - 1) + i + 1]]

RECURSIVE ParseRows(_, _, _, _, _, _, _)
ParseRows(data, nRows, stringTable, cols, rowVal, i, rows) ==
    IF i >= nRows THEN rows
    ELSE The({ParseRows(data, nRows, stringTable, cols, r, i + 1, Append(rows, r)) :
                r \in {SetRow(data, nRows, stringTable, cols, rowVal, i)}})

\* parseTable(data, stringTable, &target) for a target of rows of cols.
Divisible(n, k) == n % k = 0

parseTable(data, stringTable, cols) ==
    IF ~Divisible(Len(data), Len(cols)) THEN [panic |-> TRUE, rows |-> <<>>]
    ELSE [panic |-> FALSE,
          rows |-> ParseRows(data, Len(data) \div Len(cols), stringTable, cols,
                             ZeroRow(cols), 0, <<>>)]

\* m[key] of a map filled in the order of entries, each <<key, value>>: the
\* last value set, zero when never set.
RECURSIVE MapGet(_, _, _)
MapGet(entries, key, zero) ==
    IF entries = <<>> THEN zero
    ELSE IF entries[Len(entries)][1] = key THEN entries[Len(entries)][2]
    ELSE MapGet(SubSeq(entries, 1, Len(entries) - 1), key, zero)

\* The first loop of Parse: dirMap, the row of TARGETDIR with "." for its
\* DefaultDir.
DirMap(dirs) ==
    [i \in 1..Len(dirs) |->
        <<dirs[i][1],
          IF dirs[i][1] = TARGETDIR THEN [dirs[i] EXCEPT ![3] = Dot] ELSE dirs[i]>>]

\* The walk up the parents of a row: pathParts, leaf first.  A chain that
\* does not end goes on for ever; the walk gives up after more steps than
\* there are rows.
RECURSIVE Walk(_, _, _, _)
Walk(dirMap, nextParent, pathParts, fuel) ==
    IF nextParent = <<>> THEN [hang |-> FALSE, parts |-> pathParts]
    ELSE IF fuel = 0 THEN [hang |-> TRUE, parts |-> pathParts]
    ELSE The({Walk(dirMap, parent[2], Append(pathParts, getModernName(parent[3])),
                   fuel - 1) :
                parent \in {MapGet(dirMap, nextParent, ZeroRow(DirectoryCols))}})

\* The body of the second loop of Parse for one row of dirs.
DirWalk(dirMap, dir) ==
    Walk(dirMap, dir[2], <<getModernName(dir[3])>>, Len(dirMap) + 1)

DirPath(dirMap, dir) ==
    The({PathJoin(SliceStable(w.parts)) : w \in {DirWalk(dirMap, dir)}})

\* dirPathMap, componentDirMap and fileToPath as their entries in the order
\* they are set.
DirPathMap(dirs) ==
    The({[i \in 1..Len(dirs) |-> <<dirs[i][1], DirPath(dm, dirs[i])>>] :
           dm \in {DirMap(dirs)}})

Hangs(dirs) ==
    The({\E i \in 1..Len(dirs) : DirWalk(dm, dirs[i]).hang : dm \in {DirMap(dirs)}})

ComponentDirMap(components, dirPathMap) ==
    [i \in 1..Len(components) |->
        <<components[i][1], MapGet(dirPathMap, components[i][3], <<>>)>>]

FileToPath(files, componentDirMap) ==
    [i \in 1..Len(files) |->
        <<files[i][1],
          PathJoin(<<MapGet(componentDirMap, files[i][2], <<>>),
                     getModernName(files[i][3])>>)>>]

\* data.CABFiles
CabFilesAll(medias) == [i \in 1..Len(medias) |-> medias[i][5]]

RECURSIVE CabFilesOf(_)
CabFilesOf(medias) ==
    IF medias = <<>> THEN <<>>
    ELSE IF Head(medias)[5] = <<>> THEN CabFilesOf(Tail(medias))
    ELSE <<Head(medias)[5]>> \o CabFilesOf(Tail(medias))

\* The capacity of the slice io.ReadAll returns for a stream of n bytes, n
\* at most 512; a stream that is not there leaves the nil slice.
ReadAllCap == 512

ParseEnd(outcome) ==
    [outcome |-> outcome, dirPaths |-> <<>>, FileMap |-> <<>>, CABFiles |-> <<>>]

\* Parse after the tables are read and the paths of the rows are found.
Resolve(dirs, components, medias, files) ==
    The({[outcome |-> "ok", dirPaths |-> dp,
          FileMap |-> FileToPath(files, ComponentDirMap(components, dp)),
          CABFiles |-> CabFilesOf(medias)] : dp \in {DirPathMap(dirs)}})

\* Parse from the string table on.
ParseTables(tables, strs) ==
    The({IF d.panic THEN ParseEnd("panic")
         ELSE IF Hangs(d.rows) THEN ParseEnd("hang")
         ELSE The({IF c.panic \/ m.panic \/ f.panic THEN ParseEnd("panic")
                   ELSE Resolve(d.rows, c.rows, m.rows, f.rows) :
                     c \in {parseTable(tables.Component, strs, ComponentCols)},
                     m \in {parseTable(tables.Media, strs, MediaCols)},
                     f \in {parseTable(tables.File, strs, FileCols)}}) :
           d \in {parseTable(tables.Directory, strs, DirectoryCols)}})

\* msi.Parse(reader): the document as mscfb gives it.  cfb is whether
\* mscfb.New accepts it, readErr whether reading a stream fails, hasData
\* whether there is a !_StringData stream.
Parse(in) ==
    IF ~in.cfb THEN ParseEnd("error")
    ELSE IF in.readErr THEN ParseEnd("exit")
    ELSE The({IF sl.panic THEN ParseEnd("panic") ELSE ParseTables(in.tables, sl.strs) :
                sl \in {decodeStrings(in.data, IF in.hasData THEN ReadAllCap ELSE 0,
                                      in.pool)}})

(***************************************************************************)
(* Section 10.  The MSI documents Parse is given: tables of a chain of     *)
(* directories, components, files and media, written as a string pool,     *)
(* string data and column-major tables, and the same with a fault.         *)
(***************************************************************************)

\* Most rows of the Media table.
MaxMedia == 2

\* The numbers of directories below TARGETDIR in a short chain and in a long
\* one; a long chain has more than BlockSize directories in it.
ShortDepths == {0, 1, 2}

LongDepths == {19, 20, 21}

SourceDir == <<83, 111, 117, 114, 99, 101, 68, 105, 114>>

CabNames == {<<>>, <<97, 46, 99, 97, 98>>, <<98, 46, 99, 97, 98>>}

Digits(k) == <<48 + (k \div 10), 48 + (k % 10)>>

\* Row k of the chain: TARGETDIR for 0, "Dkk" below it.
DirKey(k) == IF k = 0 THEN TARGETDIR ELSE <<68>> \o Digits(k)

\* The name of row k: "dkk", after "s|" in the odd rows; in a long chain the
\* name is the key, which keeps the string pool short.
LongName(k, sc) == IF sc.n \in LongDepths THEN DirKey(k) ELSE <<100>> \o Digits(k)

DefaultDirOf(k, sc) ==
    IF k = 0 THEN sc.root
    ELSE IF k % 2 = 1 /\ sc.n \notin LongDepths THEN <<115, Bar>> \o LongName(k, sc)
    ELSE LongName(k, sc)

\* The parent of row k: the row above; for the first row TARGETDIR, the last
\* row (a cycle), a row that is not there, or none.
ParentOf(k, sc) ==
    IF k = 0 THEN <<>>
    ELSE IF k > 1 THEN DirKey(k - 1)
    ELSE IF sc.variant = "chain" THEN TARGETDIR
    ELSE IF sc.variant = "cycle" THEN DirKey(sc.n)
    ELSE IF sc.variant = "orphan" THEN <<88>>
    ELSE <<>>

DirRow(k, sc) == <<DirKey(k), ParentOf(k, sc), DefaultDirOf(k, sc)>>

\* The Directory table, TARGETDIR first or last.
DirRows(sc) ==
    [i \in 1..(sc.n + 1) |->
        IF sc.order = "down" THEN DirRow(i - 1, sc) ELSE DirRow(sc.n + 1 - i, sc)]

\* A component and a file in TARGETDIR, and in the last directory of a short
\* chain.
CompKey(k) == <<99>> \o Digits(k)

FileKey(k) == <<102>> \o Digits(k)

CompRow(k) == <<CompKey(k), <<>>, DirKey(k), 0, <<>>, <<>>>>

FileLong(k) == IF k = 0 THEN <<76, 46, 104>> ELSE <<112, 46, 99>>

FileRow(k) ==
    <<FileKey(k), CompKey(k),
      IF k = 0 THEN <<120, Bar>> \o FileLong(k) ELSE FileLong(k),
      0, 0, <<>>, <<>>, 0, k + 1, 0>>

Ends(sc) == IF sc.n = 0 \/ sc.n \in LongDepths THEN <<0>> ELSE <<0, sc.n>>

CompRows(sc) == [i \in 1..Len(Ends(sc)) |-> CompRow(Ends(sc)[i])]

FileRows(sc) == [i \in 1..Len(Ends(sc)) |-> FileRow(Ends(sc)[i])]

MediaRows(sc) ==
    [i \in 1..Len(sc.cabs) |-> <<i, 0, 0, <<>>, sc.cabs[i], <<>>, <<>>>>]

\* The strings of a table, and the strings of the document, each once.
RECURSIVE StringsOf(_, _)
StringsOf(rows, cols) ==
    IF rows = <<>> THEN <<>>
    ELSE SelectSeq([j \in 1..Len(cols) |-> IF cols[j] = "s" THEN Head(rows)[j] ELSE <<>>],
                   LAMBDA f : f # <<>>)
             \o StringsOf(Tail(rows), cols)

RECURSIVE Distinct(_, _)
Distinct(list, seen) ==
    IF list = <<>> THEN seen
    ELSE IF \E i \in 1..Len(seen) : seen[i] = Head(list) THEN Distinct(Tail(list), seen)
    ELSE Distinct(Tail(list), Append(seen, Head(list)))

\* The index of a string in the pool: 0 is the empty string.
IndexOf(list, f) == IF f = <<>> THEN 0 ELSE CHOOSE i \in 1..Len(list) : list[i] = f

\* A table as its stream: the fields of column j of all rows, then those of
\* column j + 1.
EncTable(rows, cols, list) ==
    [k \in 1..(Len(rows) * Len(cols)) |->
        LET f == rows[((k - 1) % Len(rows)) + 1][((k - 1) \div Len(rows)) + 1]
        IN  IF cols[((k - 1) \div Len(rows)) + 1] = "s" THEN IndexOf(list, f) ELSE f]

EncDocument(d, c, m, f, list) ==
    [cfb |-> TRUE, readErr |-> FALSE, hasData |-> TRUE,
     pool |-> LE16(0) \o LE16(0) \o BuildPool(list),
     data |-> Concat(list),
     tables |-> [Directory |-> EncTable(d, DirectoryCols, list),
                 Component |-> EncTable(c, ComponentCols, list),
                 Media |-> EncTable(m, MediaCols, list),
                 File |-> EncTable(f, FileCols, list)]]

Document(sc) ==
    The({The({EncDocument(r[1], r[2], r[3], r[4], list) :
                list \in {Distinct(StringsOf(r[1], DirectoryCols)
                                     \o StringsOf(r[2], ComponentCols)
                                     \o StringsOf(r[3], MediaCols)
                                     \o StringsOf(r[4], FileCols), <<>>)}}) :
           r \in {<<DirRows(sc), CompRows(sc), MediaRows(sc), FileRows(sc)>>}})

\* The faults of a document.
Faults ==
    {"none", "cfb", "read", "poolcut1", "poolcut3", "longrec", "overrec",
     "dirextra", "mediaextra", "badindex"}

Faulty(doc, fault) ==
    IF fault = "cfb" THEN [doc EXCEPT !.cfb = FALSE]
    ELSE IF fault = "read" THEN [doc EXCEPT !.readErr = TRUE]
    ELSE IF fault = "poolcut1" THEN [doc EXCEPT !.pool = SubSeq(@, 1, Len(@) - 1)]
    ELSE IF fault = "poolcut3" THEN [doc EXCEPT !.pool = SubSeq(@, 1, Len(@) - 3)]
    ELSE IF fault = "longrec"
    THEN [doc EXCEPT !.pool = @ \o LE16(ReadAllCap - Len(doc.data) + 1) \o LE16(1)]
    ELSE IF fault = "overrec" THEN [doc EXCEPT !.pool = @ \o LE16(1) \o LE16(1)]
    ELSE IF fault = "dirextra" THEN [doc EXCEPT !.tables.Directory = @ \o <<0>>]
    ELSE IF fault = "mediaextra" THEN [doc EXCEPT !.tables.Media = @ \o <<0>>]
    ELSE IF fault = "badindex"
    THEN [doc EXCEPT !.tables.Directory = [@ EXCEPT ![Len(@)] = 65535]]
    ELSE doc

CabLists == UNION {[1..n -> CabNames] : n \in 0..MaxMedia}

Scenario(n, root, variant, order, cabs, fault) ==
    [n |-> n, root |-> root, variant |-> variant, order |-> order, cabs |-> cabs,
     fault |-> fault]

\* The documents: chains of every depth, first rows of every kind, media
\* tables of every list of cabinets, and every fault.
MsiScenarios ==
    {Scenario(n, root, "chain", order, <<>>, "none") :
        n \in ShortDepths \cup LongDepths, root \in {SourceDir, Dot}, order \in {"down", "up"}}
    \cup {Scenario(n, SourceDir, variant, order, <<>>, "none") :
        n \in {1, 2}, variant \in {"cycle", "orphan", "noroot"}, order \in {"down", "up"}}
    \cup {Scenario(n, SourceDir, "chain", "down", cabs, "none") :
        n \in {0, 1}, cabs \in CabLists}
    \cup {Scenario(n, SourceDir, "chain", "down", cabs, fault) :
        n \in {0, 2}, cabs \in {<<>>, <<<<97, 46, 99, 97, 98>>>>}, fault \in Faults}

MsiInit ==
    \E sc \in MsiScenarios :
        msi = [st |-> "input", sc |-> sc, in |-> Faulty(Document(sc), sc.fault),
               res |-> ParseEnd("none")]

\* msiInfo, err := msi.Parse(reader)
MsiParse ==
    /\ msi.st = "input"
    /\ msi' = [msi EXCEPT !.st = "parsed", !.res = Parse(msi.in)]
    /\ UNCHANGED <<er, pool, desc, cab, rd, out, nm, vfs, drv>>

(***************************************************************************)
(* Section 11.  The VFS tree: Inode.Place (vfs.go) as vfsTargetLayer.Create *)
(* (main.go) calls it.                                                     *)
(***************************************************************************)

\* Most calls of Create on one tree.
MaxCreates == 3

\* unicode.SimpleFold on the letters of ASCII.
Fold(c) == IF c >= 65 /\ c <= 90 THEN c + 32 ELSE c

\* strings.EqualFold(a, b)
EqualFold(a, b) == Len(a) = Len(b) /\ \A i \in 1..Len(a) : Fold(a[i]) = Fold(b[i])

\* The test of place on a child: the call with caseSensitive set compares
\* by case folding, the call without it compares the names as they are.
Matches(caseSensitive, name, seg) ==
    \/ caseSensitive /\ EqualFold(name, seg)
    \/ ~caseSensitive /\ name = seg

\* The index of the first child of r that matches seg, 0 when none does.
RECURSIVE FirstMatch(_, _, _, _)
FirstMatch(contents, caseSensitive, seg, k) ==
    IF k > Len(contents) THEN 0
    ELSE IF Matches(caseSensitive, contents[k].Name, seg) THEN k
    ELSE FirstMatch(contents, caseSensitive, seg, k + 1)

Directory(name) ==
    [Type |-> "directory", Name |-> name, ExternalContents |-> <<>>, Contents |-> <<>>]

FileInode(name, external) ==
    [Type |-> "file", Name |-> name, ExternalContents |-> external, Contents |-> <<>>]

\* r.place(dir, caseSensitive, i): the error, and r after the call.
RECURSIVE place(_, _, _, _)
place(r, dir, caseSensitive, i) ==
    IF dir = <<>> THEN [err |-> FALSE, node |-> [r EXCEPT !.Contents = Append(@, i)]]
    ELSE IF r.Type # "directory" THEN [err |-> TRUE, node |-> r]
    ELSE The({IF k # 0
              THEN The({[err |-> sub.err, node |-> [r EXCEPT !.Contents[k] = sub.node]] :
                          sub \in {place(r.Contents[k], Tail(dir), caseSensitive, i)}})
              ELSE The({IF sub.err THEN [err |-> TRUE, node |-> r]
                        ELSE [err |-> FALSE,
                              node |-> [r EXCEPT !.Contents = Append(@, sub.node)]] :
                          sub \in {place(Directory(Head(dir)), Tail(dir),
                                         caseSensitive, i)}}) :
                k \in {FirstMatch(r.Contents, caseSensitive, Head(dir), 1)}})

\* r.Place(dir, caseSensitive, i)
Place(r, dir, caseSensitive, i) == place(r, SplitAt(dir, Slash), caseSensitive, i)

\* The index of the last '/' of p, 0 when there is none.
RECURSIVE LastSlash(_, _)
LastSlash(p, i) == IF i = 0 THEN 0 ELSE IF p[i] = Slash THEN i ELSE LastSlash(p, i - 1)

\* path.Dir(p)
PathDir(p) == Clean(SubSeq(p, 1, LastSlash(p, Len(p))))

\* path.Base(p)
RECURSIVE StripSlashes(_)
StripSlashes(p) ==
    IF p # <<>> /\ p[Len(p)] = Slash THEN StripSlashes(SubSeq(p, 1, Len(p) - 1)) ELSE p

PathBase(p) ==
    IF p = <<>> THEN Dot
    ELSE IF StripSlashes(p) = <<>> THEN <<Slash>>
    ELSE SubSeq(StripSlashes(p), LastSlash(StripSlashes(p), Len(StripSlashes(p))) + 1,
                Len(StripSlashes(p)))

\* The inode Create places for p, and the placement.
CreatedInode(p) == FileInode(PathBase(p), p)

CreatePlace(root, p) == Place(root, PathDir(p), TRUE, CreatedInode(p))

\* newVFSTargetLayer(t, sysrootPath): the root, named "/winsysroot".
Sysroot == <<47, 119, 105, 110, 115, 121, 115, 114, 111, 111, 116>>

\* The paths Create is called with: a/b/c/x, A/B/C/y, a/b, A/b/z, a/B/c/w, x.
VfsPaths ==
    {<<97, 47, 98, 47, 99, 47, 120>>, <<65, 47, 66, 47, 67, 47, 121>>,
     <<97, 47, 98>>, <<65, 47, 98, 47, 122>>, <<97, 47, 66, 47, 99, 47, 119>>,
     <<120>>}

VfsInit == vfs = [st |-> "open", root |-> Directory(Sysroot), calls |-> <<>>]

\* vfsTargetLayer.Create(p, size, modTime), as far as the tree goes.
VfsCreate ==
    /\ vfs.st = "open"
    /\ Len(vfs.calls) < MaxCreates
    /\ \E p \in VfsPaths :
           vfs' = The({[vfs EXCEPT !.root = r.node,
                                   !.calls = Append(@, [p |-> p, err |-> r.err])] :
                         r \in {CreatePlace(vfs.root, p)}})
    /\ UNCHANGED <<er, pool, desc, cab, rd, out, nm, msi, drv>>

(***************************************************************************)
(* Section 12.  The driver: buildWinSDK (sdk.go), buildVCTools             *)
(* (vctools.go), the VFS layer and the sinks (main.go).                    *)
(***************************************************************************)

\* strings.ToLower on the letters of ASCII.
ToLower(s) == [i \in 1..Len(s) |-> Fold(s[i])]

\* strings.HasPrefix(s, prefix), strings.TrimPrefix(s, prefix)
HasPrefix(s, prefix) == Len(s) >= Len(prefix) /\ SubSeq(s, 1, Len(prefix)) = prefix

TrimPrefix(s, prefix) ==
    IF HasPrefix(s, prefix) THEN SubSeq(s, Len(prefix) + 1, Len(s)) ELSE s

\* path.Ext(p): from the last '.' of the last element of p on.
RECURSIVE ExtFrom(_, _)
ExtFrom(p, i) ==
    IF i = 0 \/ p[i] = Slash THEN <<>>
    ELSE IF p[i] = 46 THEN SubSeq(p, i, Len(p))
    ELSE ExtFrom(p, i - 1)

PathExt(p) == ExtFrom(p, Len(p))

Include == <<105, 110, 99, 108, 117, 100, 101>>

Lib == <<108, 105, 98>>

\* The extensions slim mode keeps under include and under lib.
IncludeExts == {<<>>, <<46, 104>>, <<46, 104, 112, 112>>, <<46, 99>>, <<46, 99, 112, 112>>}

LibExts == {<<46, 108, 105, 98>>, <<46, 111, 98, 106>>}

\* The body of the loop of buildWinSDK between the look-up of outPath and
\* out.Create: "unknown" and "drop" are its continue statements, "panic" an
\* index outside parts, "write" the way on to out.Create.
Classify(outPath, slim, hasArch) ==
    IF outPath = <<>> THEN "unknown"
    ELSE The({IF Len(parts) < 3 THEN "panic"
              ELSE IF ToLower(parts[3]) = Include
              THEN IF slim /\ ToLower(PathExt(outPath)) \notin IncludeExts THEN "drop"
                   ELSE "write"
              ELSE IF ToLower(parts[3]) = Lib
              THEN IF Len(parts) < 6 THEN "panic"
                   ELSE IF ToLower(parts[6]) \notin hasArch THEN "drop"
                   ELSE IF slim /\ ToLower(PathExt(outPath)) \notin LibExts THEN "drop"
                   ELSE "write"
              ELSE "drop" :
                parts \in {SplitAt(outPath, Slash)}})

\* The keys of archTools.
ArchTools == {<<97, 114, 109>>, <<97, 114, 109, 54, 52>>, <<97, 114, 109, 54, 52, 101, 99>>, <<120, 54, 52>>, <<120, 56, 54>>}

VcPrefix == <<67, 111, 110, 116, 101, 110, 116, 115, 47, 86, 67, 47, 84, 111, 111, 108, 115, 47, 77, 83, 86, 67, 47>>

ContentsPrefix == <<67, 111, 110, 116, 101, 110, 116, 115, 47>>

\* The body of the loop of buildVCTools over archive.File before out.Create.
VcClassify(name, hasArch) ==
    IF ~HasPrefix(name, VcPrefix) THEN "drop"
    ELSE The({IF Len(parts) < 6 THEN "panic"
              ELSE IF ToLower(parts[6]) # Include /\ ToLower(parts[6]) # Lib THEN "drop"
              ELSE IF ToLower(parts[6]) = Lib /\ Len(parts) < 7 THEN "panic"
              ELSE IF ToLower(parts[6]) = Lib /\ ToLower(parts[7]) \notin hasArch
              THEN "drop"
              ELSE "write" :
                parts \in {SplitAt(name, Slash)}})

\* json.MarshalIndent of an inode, in short: '{', the first letter of the
\* type, the name and the external contents in quotes, the contents in
\* brackets, '}'; a field that is empty is left out.
RECURSIVE MarshalInode(_)
RECURSIVE MarshalAll(_)
MarshalInode(i) ==
    <<123, IF i.Type = "file" THEN 102 ELSE 100, 34>>
        \o i.Name \o <<34>>
        \o (IF i.ExternalContents = <<>> THEN <<>>
            ELSE <<62, 34>> \o i.ExternalContents \o <<34>>)
        \o (IF i.Contents = <<>> THEN <<>> ELSE <<91>> \o MarshalAll(i.Contents) \o <<93>>)
        \o <<125>>

MarshalAll(contents) ==
    IF contents = <<>> THEN <<>>
    ELSE The({The({a \o b : b \in {MarshalAll(Tail(contents))}}) :
                a \in {MarshalInode(Head(contents))}})

\* json.MarshalIndent(v.v, "", "\t"): the settings of newVFSTargetLayer and
\* the roots.
MarshalVFS(root) == <<48, 102, 116, 102, 97, 108, 108, 116, 104, 114, 111, 117, 103, 104>> \o <<91>> \o MarshalInode(root) \o <<93>>

OverlayName == <<118, 102, 115, 111, 118, 101, 114, 108, 97, 121, 46, 121, 97, 109, 108>>

\* The length of the buffer of io.Copy.
CopyBuf == 1

\* An event of the inner sink: a Create that succeeded, a Write that
\* succeeded, a resource that was closed; for a file of the directory sink,
\* with its path.
Event(ev, path, n) == [ev |-> ev, path |-> path, n |-> n]

\* if d.currFile != nil { d.currFile.Close() } at the head of
\* directoryTarget.Create: the log afterwards.  currFile is the path of the
\* file the sink holds, empty for nil; the error of Close is dropped.
ClosePrevious(d) ==
    IF d.sink = "dir" /\ d.currFile # <<>> /\ d.writable /\ d.fault # "closefile"
    THEN Append(d.log, Event("close-file", d.currFile, 0))
    ELSE d.log

\* The inner sink: writable after a Create that succeeded, not after one
\* that failed; the directory sink has closed the file it held either way,
\* and holds the new one when it could create it.  fault is the call that
\* fails in this run.
\* t.Create(p, size, modTime)
SinkCreate(d, p, size, kind) ==
    IF d.fault = kind \/ d.broken
    THEN [err |-> TRUE, d |-> [d EXCEPT !.writable = FALSE,
                                        !.broken = d.sink = "tar",
                                        !.log = ClosePrevious(d)]]
    ELSE [err |-> FALSE,
          d |-> [d EXCEPT !.writable = TRUE,
                          !.currFile = IF d.sink = "dir" THEN p ELSE d.currFile,
                          !.log = Append(ClosePrevious(d), Event("create", p, size))]]

\* t.Write(b) with len(b) = n
SinkWrite(d, n, kind) ==
    IF d.fault = kind \/ ~d.writable THEN [err |-> TRUE, d |-> d]
    ELSE [err |-> FALSE, d |-> [d EXCEPT !.log = Append(@, Event("write", <<>>, n))]]

\* archiveTarget.Close(): the tar writer, the zstd encoder, the file; the
\* first error ends it.
ArchiveCloseFileFirst(fault) ==
    <<Event("close-file", <<>>, 0), Event("close-zstd", <<>>, 0),
      Event("close-tar", <<>>, 0)>>

ArchiveClose(fault) ==
    IF fault = "closetar" THEN <<>>
    ELSE IF fault = "closezstd" THEN <<Event("close-tar", <<>>, 0)>>
    ELSE IF fault = "closefile"
    THEN <<Event("close-tar", <<>>, 0), Event("close-zstd", <<>>, 0)>>
    ELSE <<Event("close-tar", <<>>, 0), Event("close-zstd", <<>>, 0),
           Event("close-file", <<>>, 0)>>

\* directoryTarget.Close(): the current file, when there is one; a file that
\* was closed before, or whose Close fails, gives an error.
DirectoryClose(d) ==
    IF d.currFile = <<>> \/ ~d.writable \/ d.fault = "closefile" THEN <<>>
    ELSE <<Event("close-file", d.currFile, 0)>>

\* t.Close()
SinkClose(d) ==
    IF d.sink = "tar"
    THEN [err |-> d.fault \in {"closetar", "closezstd", "closefile"},
          d |-> [d EXCEPT !.log = @ \o ArchiveClose(d.fault)]]
    ELSE [err |-> d.currFile # <<>> /\ (~d.writable \/ d.fault = "closefile"),
          d |-> [d EXCEPT !.log = @ \o DirectoryClose(d)]]

\* vfsTargetLayer.Create(p, size, modTime)
LayerCreate(d, p, size) ==
    The({IF pl.err THEN [err |-> TRUE, d |-> d]
         ELSE The({[err |-> sc.err,
                    d |-> [sc.d EXCEPT !.creates = (IF sc.err THEN d.creates
                                                    ELSE d.creates + 1)]] :
                     sc \in {SinkCreate([d EXCEPT !.root = pl.node], p, size, "create")}}) :
           pl \in {CreatePlace(d.root, p)}})

\* out.Create(...) and what the driver does with its error: log.Fatalf, or
\* on to io.Copy.
CreateOrExit(d, p, size) ==
    The({[r.d EXCEPT !.pc = IF r.err THEN "exit" ELSE "copy"] :
           r \in {LayerCreate(d, p, size)}})

\* The Writes of io.Copy(out, src) for the chunks src gave: the first Write
\* that fails ends it.
RECURSIVE WriteChunks(_, _)
WriteChunks(d, chunks) ==
    IF chunks = <<>> THEN [err |-> FALSE, d |-> d]
    ELSE The({IF w.err THEN w ELSE WriteChunks(w.d, Tail(chunks)) :
                w \in {SinkWrite(d, Head(chunks), "write")}})

\* io.Copy(out, cabF) that stops after its first Read and Write.
CopyCabOnce(c, d) ==
    The({IF r.res = "panic" THEN [c |-> r.c, d |-> d, res |-> "panic"]
         ELSE IF r.bytes = <<>> THEN [c |-> r.c, d |-> d, res |-> "nil"]
         ELSE The({[c |-> r.c, d |-> w.d, res |-> IF w.err THEN "err" ELSE "nil"] :
                     w \in {SinkWrite(d, Len(r.bytes), "write")}}) :
            r \in {CabinetRead(c, CopyBuf)}})

\* io.Copy(out, cabF): Read into the buffer, Write what was read, until a
\* Write fails or Read reports the end; the Cabinet and the sink afterwards.
RECURSIVE CopyCab(_, _)
CopyCab(c, d) ==
    The({IF r.res = "panic" THEN [c |-> r.c, d |-> d, res |-> "panic"]
         ELSE The({IF w.err THEN [c |-> r.c, d |-> w.d, res |-> "err"]
                   ELSE IF r.err = "nil" THEN CopyCab(r.c, w.d)
                   ELSE [c |-> r.c, d |-> w.d,
                         res |-> IF r.err = "EOF" THEN "nil" ELSE "err"] :
                     w \in {IF r.bytes = <<>> THEN [err |-> FALSE, d |-> d]
                            ELSE SinkWrite(d, Len(r.bytes), "write")}}) :
            r \in {CabinetRead(c, CopyBuf)}})

\* The Reads of io.Copy(out, f) for a file of a zip archive that holds n
\* bytes.
ZipChunks(n) == [i \in 1..((n + CopyBuf - 1) \div CopyBuf) |-> Min(CopyBuf, n - (i - 1) * CopyBuf)]

\* vfsTargetLayer.Close(), and the log.Fatalf of main on its error.
LayerClose(d) ==
    The({The({IF w.err THEN [w.d EXCEPT !.pc = "exit"]
              ELSE The({[c.d EXCEPT !.pc = IF c.err THEN "exit" ELSE "done"] :
                          c \in {SinkClose([w.d EXCEPT !.doc = MarshalVFS(d.root)])}}) :
                w \in {SinkWrite(cr.d, Len(MarshalVFS(d.root)), "ovwrite")}}) :
           cr \in {SinkCreate(d, OverlayName, Len(MarshalVFS(d.root)), "ovcreate")}})

\* The paths a FileMap gives: headers and libraries in their directories,
\* in either case, a program, a file right under the directory of the
\* installer, a library outside an architecture directory.
OutPaths ==
    {<<75, 47, 49, 47, 73, 110, 99, 108, 117, 100, 101, 47, 118, 47, 117, 109, 47, 97, 46, 104>>,
     <<75, 47, 49, 47, 105, 110, 99, 108, 117, 100, 101, 47, 118, 46, 50, 47, 117, 109, 47, 82, 69, 65, 68, 77, 69>>,
     <<75, 47, 49, 47, 105, 110, 99, 108, 117, 100, 101, 47, 118, 47, 117, 109, 47, 114, 46, 84, 88, 84>>,
     <<75, 47, 49, 47, 76, 105, 98, 47, 118, 47, 117, 109, 47, 120, 54, 52, 47, 107, 46, 76, 105, 98>>,
     <<75, 47, 49, 47, 76, 73, 66, 47, 118, 47, 117, 109, 47, 88, 56, 54, 47, 107, 46, 112, 100, 98>>,
     <<75, 47, 49, 47, 98, 105, 110, 47, 116, 46, 101, 120, 101>>,
     <<75, 47, 97, 46, 104>>,
     <<75, 47, 49, 47, 76, 105, 98, 47, 107, 46, 108, 105, 98>>,
     <<>>}

\* The values of --architectures.
ArchLists == {{<<120, 54, 52>>}, {<<120, 54, 52>>, <<120, 56, 54>>}, {<<88, 54, 52>>}}

\* The files of the packages of the VC tools: name, size, and whether the
\* archive holds fewer bytes than the size it states.
VcFile(name, size, short) == [name |-> name, size |-> size, short |-> short]

VcLists ==
    {<<>>,
     <<VcFile(<<67, 111, 110, 116, 101, 110, 116, 115, 47, 86, 67, 47, 84, 111, 111, 108, 115, 47, 77, 83, 86, 67, 47, 49, 47, 105, 110, 99, 108, 117, 100, 101, 47, 118, 46, 104>>, 2, FALSE),
       VcFile(<<67, 111, 110, 116, 101, 110, 116, 115, 47, 120, 46, 116, 120, 116>>, 1, FALSE),
       VcFile(<<67, 111, 110, 116, 101, 110, 116, 115, 47, 86, 67, 47, 84, 111, 111, 108, 115, 47, 77, 83, 86, 67, 47, 49, 47, 108, 105, 98, 47, 120, 54, 52, 47, 109, 46, 108, 105, 98>>, 1, FALSE),
       VcFile(<<67, 111, 110, 116, 101, 110, 116, 115, 47, 86, 67, 47, 84, 111, 111, 108, 115, 47, 77, 83, 86, 67, 47, 49, 47, 98, 105, 110, 47, 99, 46, 101, 120, 101>>, 1, FALSE)>>,
     <<VcFile(<<67, 111, 110, 116, 101, 110, 116, 115, 47, 86, 67, 47, 84, 111, 111, 108, 115, 47, 77, 83, 86, 67, 47, 114>>, 1, FALSE)>>,
     <<VcFile(<<67, 111, 110, 116, 101, 110, 116, 115, 47, 86, 67, 47, 84, 111, 111, 108, 115, 47, 77, 83, 86, 67, 47, 49, 47, 108, 105, 98, 47, 120, 54, 52, 47, 109, 46, 108, 105, 98>>, 2, TRUE)>>}

\* The calls of the sink that may fail in a run.
DrvFaults ==
    {"none", "create", "write", "ovcreate", "ovwrite", "closetar", "closezstd",
     "closefile"}

\* --out-dir
OutDir == <<111>>

\* The cabinets of the SDK: three files in two folders; a file whose segment
\* ends past its folder; a folder without blocks.
DrvCabs ==
    {[folders |-> <<FolderNone2, FolderZip2>>,
      files |-> <<CabFile(97, 0, Wide(0, 2), Wide(2, 2)),
                  CabFile(98, 0, Wide(1, 2), Wide(2, 2)),
                  CabFile(99, 1, Wide(1, 2), Wide(2, 2))>>],
     [folders |-> <<FolderNone1, FolderNone1>>,
      files |-> <<CabFile(97, 1, Wide(0, 2), Wide(1, 2)),
                  CabFile(102, 0, <<0, 1>>, Wide(1, 2))>>],
     [folders |-> <<FolderEmpty, FolderMismatch>>,
      files |-> <<CabFile(97, 0, Wide(0, 2), Wide(2, 2))>>]}

DrvDesc(c) ==
    [sig |-> SigMSCF, res |-> <<Wide(0, 2), Wide(0, 2), Wide(0, 2)>>,
     ver |-> <<3, 1>>, flags |-> 0, rsv |-> NoReserve, folders |-> c.folders,
     files |-> c.files]

\* The runs: every path for the first file of each cabinet; for the cabinet
\* of three files, every sink, fault and list of VC files; and runs that
\* extract no file.
DrvConfigs ==
    {[cab |-> c, eager |-> TRUE,
      fileMap |-> <<<< <<97>>, pa >>, << <<98>>, pb >>, << <<99>>, <<75, 47, 49, 47, 76, 105, 98, 47, 118, 47, 117, 109, 47, 120, 54, 52, 47, 107, 46, 76, 105, 98>> >>,
                    << <<102>>, <<75, 47, 49, 47, 73, 110, 99, 108, 117, 100, 101, 47, 118, 47, 117, 109, 47, 97, 46, 104>> >> >>,
      slim |-> slim, archs |-> archs, sink |-> "tar", fault |-> "none", vc |-> <<>>] :
        c \in DrvCabs, pa \in OutPaths, pb \in {<<>>, <<75, 47, 49, 47, 105, 110, 99, 108, 117, 100, 101, 47, 118, 47, 117, 109, 47, 114, 46, 84, 88, 84>>},
        slim \in BOOLEAN, archs \in ArchLists}
    \cup
    {[cab |-> CHOOSE c \in DrvCabs : Len(c.files) = 3, eager |-> eager,
      fileMap |-> <<<< <<97>>, <<75, 47, 49, 47, 73, 110, 99, 108, 117, 100, 101, 47, 118, 47, 117, 109, 47, 97, 46, 104>> >>, << <<98>>, pb >>,
                    << <<99>>, <<75, 47, 49, 47, 76, 105, 98, 47, 118, 47, 117, 109, 47, 120, 54, 52, 47, 107, 46, 76, 105, 98>> >> >>,
      slim |-> TRUE, archs |-> {<<120, 54, 52>>}, sink |-> sink, fault |-> fault, vc |-> vc] :
        eager \in BOOLEAN, pb \in {<<>>, <<75, 47, 49, 47, 105, 110, 99, 108, 117, 100, 101, 47, 118, 47, 117, 109, 47, 98, 46, 104>>},
        sink \in {"tar", "dir"}, fault \in DrvFaults, vc \in VcLists}
    \cup
    {[cab |-> CHOOSE c \in DrvCabs : Len(c.files) = 3, eager |-> TRUE,
      fileMap |-> <<<< <<97>>, <<75, 47, 49, 47, 98, 105, 110, 47, 116, 46, 101, 120, 101>> >>>>,
      slim |-> TRUE, archs |-> {<<120, 54, 52>>}, sink |-> sink, fault |-> fault,
      vc |-> <<>>] :
        sink \in {"tar", "dir"}, fault \in {"none", "closefile"}}

\* The state main hands to buildWinSDK: the sink newVFSTargetLayer made and
\* a cabinet cab.New accepted.
DrvInit ==
    \E g \in DrvConfigs :
        LET d   == DrvDesc(g.cab)
            src == EncCabinet(d)
        IN  \E r \in New(src) :
                /\ r.err = "nil"
                /\ desc = d
                /\ cab = [CabOf(src, r) EXCEPT !.eager = g.eager]
                /\ rd = RdIdle
                /\ out = OutIdle
                /\ drv = [st |-> "run", pc |-> "sdk", slim |-> g.slim,
                          archs |-> g.archs, fileMap |-> g.fileMap, vc |-> g.vc,
                          vcIdx |-> 0, sink |-> g.sink, fault |-> g.fault,
                          broken |-> FALSE, writable |-> FALSE, currFile |-> <<>>,
                          root |-> Directory(IF g.sink = "tar" THEN Sysroot ELSE OutDir),
                          log |-> <<>>, creates |-> 0, doc |-> <<>>,
                          last |-> [by |-> "none", path |-> <<>>, decision |-> "none"]]

\* The header Next returned, looked up and classified, and out.Create for
\* the file that is kept.
Decide(d, outPath, size) ==
    IF d.last.decision = "panic" THEN [d EXCEPT !.pc = "panic"]
    ELSE IF d.last.decision = "write" THEN CreateOrExit(d, outPath, size)
    ELSE d

AfterHeader(d, name, size) ==
    The({Decide([d EXCEPT !.last = [by |-> "sdk", path |-> outPath,
                                    decision |-> Classify(outPath, d.slim, d.archs)]],
                outPath, size) :
           outPath \in {MapGet(d.fileMap, name, <<>>)}})

\* One turn of the loop of buildWinSDK up to io.Copy.
DrvNext ==
    /\ drv.st = "run" /\ drv.pc = "sdk"
    /\ LET r == CabinetNext(cab)
       IN  /\ cab' = r.c
           /\ drv' = IF r.res = "eof" THEN [drv EXCEPT !.pc = "vcstart"]
                     ELSE IF r.res = "panic" THEN [drv EXCEPT !.pc = "panic"]
                     ELSE IF r.res = "err" THEN [drv EXCEPT !.pc = "exit"]
                     ELSE AfterHeader(drv, cab.files[cab.fileIdx + 1].name,
                                      Int64(cab.files[cab.fileIdx + 1].CBFile))
    /\ UNCHANGED <<er, pool, desc, rd, out, nm, msi, vfs>>

\* io.Copy(out, cabF), and the log.Fatalf on its error.
DrvCopy ==
    /\ drv.st = "run" /\ drv.pc = "copy" /\ drv.vcIdx = 0
    /\ LET r == CopyCab(cab, drv)
       IN  /\ cab' = r.c
           /\ drv' = [r.d EXCEPT !.pc = IF r.res = "panic" THEN "panic"
                                        ELSE IF r.res = "err" THEN "exit"
                                        ELSE "sdk"]
    /\ UNCHANGED <<er, pool, desc, rd, out, nm, msi, vfs>>

\* The head of buildVCTools: an architecture archTools does not know ends
\* the run.
DrvVCStart ==
    /\ drv.st = "run" /\ drv.pc = "vcstart"
    /\ drv' = [drv EXCEPT !.pc = IF drv.archs \subseteq ArchTools THEN "vc" ELSE "exit"]
    /\ UNCHANGED <<er, pool, desc, cab, rd, out, nm, msi, vfs>>

\* One file of a package of the VC tools up to io.Copy.
DrvVCFile ==
    /\ drv.st = "run" /\ drv.pc = "vc" /\ drv.vcIdx < Len(drv.vc)
    /\ LET f == drv.vc[drv.vcIdx + 1]
           c == VcClassify(f.name, drv.archs)
           d == [drv EXCEPT !.vcIdx = @ + 1,
                            !.last = [by |-> "vc", path |-> f.name, decision |-> c]]
       IN  drv' = IF c = "panic" THEN [d EXCEPT !.pc = "panic"]
                  ELSE IF c = "write"
                  THEN CreateOrExit(d, TrimPrefix(f.name, ContentsPrefix), f.size)
                  ELSE d
    /\ UNCHANGED <<er, pool, desc, cab, rd, out, nm, msi, vfs>>

\* io.Copy(out, f) for the file of the zip archive: a file that is short of
\* its size ends in an error after its bytes.
DrvVCCopy ==
    /\ drv.st = "run" /\ drv.pc = "copy" /\ drv.vcIdx > 0
    /\ LET f == drv.vc[drv.vcIdx]
           w == WriteChunks(drv, ZipChunks(IF f.short THEN f.size - 1 ELSE f.size))
       IN  drv' = [w.d EXCEPT !.pc = IF w.err \/ f.short THEN "exit" ELSE "vc"]
    /\ UNCHANGED <<er, pool, desc, cab, rd, out, nm, msi, vfs>>

\* out.Close() in main.
DrvClose ==
    /\ drv.st = "run" /\ drv.pc = "vc" /\ drv.vcIdx = Len(drv.vc)
    /\ drv' = LayerClose(drv)
    /\ UNCHANGED <<er, pool, desc, cab, rd, out, nm, msi, vfs>>

(***************************************************************************)
(* Section 13.  Inputs for the segment check of Next.                      *)
(***************************************************************************)

\* Offsets and sizes of a file: inside the folder, at its end, past it, and
\* those whose sum passes 2^32.
SegValues ==
    {Wide(0, 2), Wide(1, 2), Wide(2, 2), Wide(3, 2), Wide(4, 2), <<0, 1>>,
     <<65534, 65535>>, <<65535, 65535>>}

\* The two folders with bits set above the low four of the compression field.
FolderNoneUpper == [FolderNone2 EXCEPT !.comp = CompNone + 32]

FolderZipUpper == [FolderZip2 EXCEPT !.comp = CompMSZIP + 16]

\* An MSZIP folder whose first block does not begin with "CK".
FolderBadFirst ==
    Folder(CompMSZIP, <<[cbData |-> 3, cbUncomp |-> 1, payload |-> <<67, 88, 27>>],
                        Zip(<<28, TokBase>>, 1)>>)

SegFolders ==
    {<<FolderNone2, FolderZip2>>, <<FolderNoneUpper, FolderZipUpper>>,
     <<FolderBadFirst, FolderBadSig>>}

\* A cabinet of two folders and two files, the second a fixed one.
SegDescs ==
    {[sig |-> SigMSCF, res |-> <<Wide(0, 2), Wide(0, 2), Wide(0, 2)>>,
      ver |-> <<3, 1>>, flags |-> 0, rsv |-> NoReserve,
      folders |-> folders,
      files |-> <<[size |-> size, uoff |-> uoff, ifolder |-> ifolder, name |-> <<97>>],
                  CabFile(98, 1, Wide(1, 2), Wide(2, 2))>>] :
        folders \in SegFolders, uoff \in SegValues, size \in SegValues,
        ifolder \in {0, 1}}

\* The state after c, err := cab.New(r) with err == nil.
SegInit ==
    \E d \in SegDescs :
        \E r \in New(EncCabinet(d)) :
            /\ r.err = "nil"
            /\ desc = d
            /\ cab = CabOf(EncCabinet(d), r)
            /\ rd = RdIdle
            /\ out = OutIdle

(***************************************************************************)
(* Section 14.  parseTable on its own.                                     *)
(***************************************************************************)

\* Most cells of a table given to parseTable.
MaxCells == 6

\* The string table: the empty string at 0, as in an MSI, and two more.
TableStrings == <<<<>>, <<97>>, <<98>>>>

\* The values of a cell: indices of the string table, and one outside it.
CellValues == {0, 1, 2, 65535}

\* The rows of a target: a string and a number; two strings and a number.
TableCols == {<<"s", "u">>, <<"s", "s", "u">>}

\* A call parseTable(data, stringTable, &target) about to be made.
TableInit ==
    \E cols \in TableCols, n \in 0..MaxCells :
        \E data \in [1..n -> CellValues] :
            msi = [st |-> "table", data |-> data, strs |-> TableStrings,
                   cols |-> cols, panic |-> FALSE, rows |-> <<>>]

\* parseTable(data, stringTable, &target)
TableParse ==
    /\ msi.st = "table"
    /\ LET r == parseTable(msi.data, msi.strs, msi.cols)
       IN  msi' = [msi EXCEPT !.st = "tabled", !.panic = r.panic, !.rows = r.rows]
    /\ UNCHANGED <<er, pool, desc, cab, rd, out, nm, vfs, drv>>

(***************************************************************************)
(* Section 15.  The walk of buildVCTools over the packages of the manifest *)
(* (chase), from the components of the architectures asked for.            *)
(***************************************************************************)

\* Most packages of a manifest.
MaxPkgs == 3

ToolsARM64 == "Microsoft.VisualStudio.Component.VC.Tools.ARM64"

ToolsX64 == "Microsoft.VisualStudio.Component.VC.Tools.x86.x64"

\* archTools[arch]; the empty string for a key that is not there.
ArchTool(arch) ==
    IF arch = <<97, 114, 109>> THEN "Microsoft.VisualStudio.Component.VC.Tools.ARM"
    ELSE IF arch = <<97, 114, 109, 54, 52>> THEN ToolsARM64
    ELSE IF arch = <<97, 114, 109, 54, 52, 101, 99>>
    THEN "Microsoft.VisualStudio.Component.VC.Tools.ARM64EC"
    ELSE IF arch = <<120, 54, 52>> \/ arch = <<120, 56, 54>> THEN ToolsX64
    ELSE ""

\* The values of --architectures, in the order given.
ChaseArchs ==
    {<<<<120, 54, 52>>>>, <<<<120, 56, 54>>, <<120, 54, 52>>>>,
     <<<<120, 54, 52>>, <<97, 114, 109, 54, 52>>>>, <<<<88, 54, 52>>>>}

\* The IDs of the packages of a manifest, and the key sets of their
\* Dependencies; one key is of no package.
PkgIds == {ToolsX64, ToolsARM64, "Core"}

DepSets == {{}, {ToolsX64}, {"Core"}, {ToolsARM64, "Core", "Missing"}}

Pkg(id, deps) == [ID |-> id, Dependencies |-> deps]

\* manifest.Packages: any list, two packages of one ID among them.
Manifests ==
    UNION {[1..n -> {Pkg(id, deps) : id \in PkgIds, deps \in DepSets}] : n \in 0..MaxPkgs}

\* buildVCTools(manifest, architectures, slim, out) at its first statement.
\* pkgs holds the assignments pkgs[pkg.ID] = pkg in the order they are made,
\* each with the place of the package in the manifest; stack holds the calls
\* of chase that have not returned, the innermost last, each with its ids and
\* the place of its loop.
ChaseInit ==
    \E manifest \in Manifests, architectures \in ChaseArchs :
        drv = [st |-> "roots", manifest |-> manifest, architectures |-> architectures,
               k |-> 1, roots |-> {}, hasArch |-> {}, stack |-> <<>>, pkgs |-> <<>>]

\* A map in which no ID is ever found.
SeenNever(pkgs, id) == FALSE

\* _, ok := pkgs[id]
Seen(pkgs, id) == \E n \in 1..Len(pkgs) : pkgs[n].ID = id

\* One turn of the loop over architectures.
ChaseArch ==
    /\ drv.st = "roots"
    /\ drv.k <= Len(drv.architectures)
    /\ LET arch == drv.architectures[drv.k]
           component == ArchTool(arch)
       IN  drv' = IF component = "" THEN [drv EXCEPT !.st = "exit"]
                  ELSE [drv EXCEPT !.roots = @ \cup {component},
                                   !.hasArch = @ \cup {arch}, !.k = @ + 1]
    /\ UNCHANGED <<er, pool, desc, cab, rd, out, nm, msi, vfs>>

\* chase(roots)
ChaseCall ==
    /\ drv.st = "roots"
    /\ drv.k > Len(drv.architectures)
    /\ drv' = [drv EXCEPT !.st = "chase", !.stack = <<[ids |-> drv.roots, i |-> 1]>>]
    /\ UNCHANGED <<er, pool, desc, cab, rd, out, nm, msi, vfs>>

\* One turn of the loop of the innermost chase over manifest.Packages.
ChaseLoop ==
    /\ drv.st = "chase"
    /\ drv.stack # <<>>
    /\ LET top == Len(drv.stack)
           f == drv.stack[top]
       IN  /\ f.i <= Len(drv.manifest)
           /\ LET pkg == drv.manifest[f.i]
                  on == [drv EXCEPT !.stack[top].i = @ + 1]
              IN  drv' = IF pkg.ID \notin f.ids THEN on
                         ELSE IF Seen(drv.pkgs, pkg.ID) THEN on
                         ELSE IF pkg.Dependencies = {}
                         THEN [on EXCEPT !.pkgs = Append(@, [ID |-> pkg.ID, at |-> f.i])]
                         ELSE [on EXCEPT !.pkgs = Append(@, [ID |-> pkg.ID, at |-> f.i]),
                                         !.stack = Append(@, [ids |-> pkg.Dependencies,
                                                              i |-> 1])]
    /\ UNCHANGED <<er, pool, desc, cab, rd, out, nm, msi, vfs>>

\* The loop of the innermost chase is over: it returns.
ChaseReturn ==
    /\ drv.st = "chase"
    /\ drv.stack # <<>>
    /\ drv.stack[Len(drv.stack)].i > Len(drv.manifest)
    /\ drv' = [drv EXCEPT !.stack = SubSeq(@, 1, Len(@) - 1)]
    /\ UNCHANGED <<er, pool, desc, cab, rd, out, nm, msi, vfs>>

\* chase(roots) has returned: log.Printf("Downloading %d packages", len(pkgs))
ChaseDone ==
    /\ drv.st = "chase"
    /\ drv.stack = <<>>
    /\ drv' = [drv EXCEPT !.st = "done"]
    /\ UNCHANGED <<er, pool, desc, cab, rd, out, nm, msi, vfs>>

(***************************************************************************)
(* Section 16.  Cabinets for Next called again after it failed: files of a *)
(* folder that is not there, of the folder index a new Cabinet starts      *)
(* with, and of a folder that does not decompress to its end.              *)
(***************************************************************************)

\* folderIdx of a new Cabinet: math.MaxUint16.
NoFolder == 65535

RetryFilePool ==
    {CabFile(115, NoFolder, Wide(0, 2), Wide(0, 2)),
     CabFile(111, 5, Wide(0, 2), Wide(1, 2)),
     CabFile(97, 0, Wide(0, 2), Wide(1, 2)),
     CabFile(98, 1, Wide(0, 2), Wide(1, 2)),
     CabFile(99, 1, Wide(1, 2), Wide(2, 2))}

RetryDescs ==
    {[sig |-> SigMSCF, res |-> <<Wide(0, 2), Wide(0, 2), Wide(0, 2)>>,
      ver |-> <<3, 1>>, flags |-> 0, rsv |-> NoReserve,
      folders |-> folders, files |-> files] :
        folders \in {<<FolderNone2, FolderZip2>>, <<FolderNone2, FolderBadSig>>},
        files \in UNION {[1..n -> RetryFilePool] : n \in 1..MaxCabFiles}}

\* The state after c, err := cab.New(r) with err == nil.
RetryInit ==
    \E d \in RetryDescs :
        \E r \in New(EncCabinet(d)) :
            /\ r.err = "nil"
            /\ desc = d
            /\ cab = CabOf(EncCabinet(d), r)
            /\ rd = RdIdle
            /\ out = OutIdle

(***************************************************************************)
(* Specifications.                                                         *)
(***************************************************************************)

ErIdle ==
    [n0 |-> 0, N |-> 0, left |-> 0, left0 |-> 0, total |-> 0, op |-> "idle",
     k |-> 0, n |-> 0, err |-> "nil", uerr |-> "nil", touched |-> FALSE,
     prevN |-> 0, prevLeft |-> 0]

CabIdle == CabRaw(<<>>)

DescIdle == <<>>

NmIdle == [st |-> "idle"]

MsiIdle == [st |-> "idle"]

VfsIdle == [st |-> "idle"]

DrvIdle == [st |-> "idle"]

\* The parts of the state a specification of the Cabinet reader leaves alone,
\* and those one of the MSI reader and the driver leaves alone.
RestIdle == nm = NmIdle /\ msi = MsiIdle /\ vfs = VfsIdle /\ drv = DrvIdle

CabSideIdle ==
    /\ er = ErIdle /\ pool = PoolIdle /\ desc = DescIdle /\ cab = CabIdle
    /\ rd = RdIdle /\ out = OutIdle

\* An ExactReader under any sequence of Read calls, then Close.

InitExact ==
    /\ ErInit
    /\ pool = PoolIdle /\ cab = CabIdle /\ desc = DescIdle /\ rd = RdIdle /\ out = OutIdle
    /\ RestIdle

NextExact == ErRead \/ ErClose

SpecExact == InitExact /\ [][NextExact]_vars

\* decodeStrings on pools of records.
InitPool ==
    /\ PoolInit
    /\ er = ErIdle /\ cab = CabIdle /\ desc = DescIdle /\ rd = RdIdle /\ out = OutIdle
    /\ RestIdle

NextPool == PoolDecode

SpecPool == InitPool /\ [][NextPool]_vars

\* decodeStrings on pools built from lists of strings.
InitRoundTrip ==
    /\ RoundTripInit
    /\ er = ErIdle /\ cab = CabIdle /\ desc = DescIdle /\ rd = RdIdle /\ out = OutIdle
    /\ RestIdle

NextRoundTrip == PoolDecode

SpecRoundTrip == InitRoundTrip /\ [][NextRoundTrip]_vars

\* cab.New on headers that are valid or depart from a valid one.
InitNew ==
    /\ NewInit
    /\ er = ErIdle /\ pool = PoolIdle /\ rd = RdIdle /\ out = OutIdle
    /\ RestIdle

NextNew == CabNew

SpecNew == InitNew /\ [][NextNew]_vars

\* A Cabinet New accepted, under any sequence of calls.
InitCab == CabInit /\ er = ErIdle /\ pool = PoolIdle /\ RestIdle

NextCab == CabNext \/ CabRead \/ CabContent \/ CabContentRead

SpecCab == InitCab /\ [][NextCab]_vars

\* A Cabinet of one MSZIP folder, under any sequence of calls.
InitZip == ZipInit /\ er = ErIdle /\ pool = PoolIdle /\ RestIdle

NextZip == CabNext \/ CabRead \/ CabContent \/ CabContentRead

SpecZip == InitZip /\ [][NextZip]_vars

(***************************************************************************)
(* Properties.                                                             *)
(***************************************************************************)

\* C8: an ExactReader created with count n never returns more than n bytes
\* in total; its remaining count is never negative and is n less the bytes
\* taken from the underlying source; a Read at count 0 returns EOF and
\* leaves the source alone; and when the source reports EOF with the count
\* still positive the Read returns ErrUnexpectedEOF, not EOF.
C8_ExactReaderBounded ==
    /\ er.total <= er.n0
    /\ er.N >= 0
    /\ er.N = er.n0 - (er.left0 - er.left)
    /\ (er.op = "read" /\ er.prevN = 0) =>
          (er.n = 0 /\ er.err = "EOF" /\ er.left = er.prevLeft)
    /\ (er.op = "read" /\ er.uerr = "EOF") =>
          er.err = (IF er.N > 0 THEN "ErrUnexpectedEOF" ELSE "EOF")
    /\ (er.op = "read" /\ er.err = "EOF" /\ er.prevN > 0) => er.N = 0

\* A Read that got bytes and the end of the source before the count was used up.
C8_Witness ==
    /\ er.op = "read" /\ er.total > er.n /\ er.n > 0
    /\ er.uerr = "EOF" /\ er.N > 0 /\ er.err = "ErrUnexpectedEOF"

\* The length a pool record stands for, and the data offset before record i.
RecLen(r) == IF r.ref = 0 THEN 0 ELSE IF r.len = 0 THEN r.big ELSE r.len

RECURSIVE OffsetBefore(_, _)
OffsetBefore(recs, i) ==
    IF i <= 1 THEN 0 ELSE OffsetBefore(recs, i - 1) + RecLen(recs[i - 1])

RecsFit(recs, data) == OffsetBefore(recs, Len(recs) + 1) <= Len(data)

\* C9: decodeStrings returns one string per pool record, in record order:
\* the empty string for a record with refcount 0, which leaves the data
\* offset alone, and otherwise the next `length` bytes of the string data,
\* length being len16 or, for len16 = 0, the u32 that follows; the strings
\* are contiguous slices of the data.  The vector of the unit test decodes
\* to "", Name, Table, "", Type, Column.
C9_OneStringPerRecord ==
    (pool.op = "decoded" /\ RecsFit(pool.recs, pool.data)) =>
        /\ ~pool.res.panic
        /\ Len(pool.res.strs) = Len(pool.recs)
        /\ \A i \in 1..Len(pool.recs) :
              pool.res.strs[i] =
                  SubSeq(pool.data, OffsetBefore(pool.recs, i) + 1,
                         OffsetBefore(pool.recs, i) + RecLen(pool.recs[i]))
        /\ pool.res.offset = Wide(OffsetBefore(pool.recs, Len(pool.recs) + 1), 2)
        /\ (pool.pl = TestPool /\ pool.data = TestData) => pool.res.strs = TestWant

\* A decoded pool with a short string, a refcount-0 record and a long-form
\* string, in that order.
C9_Witness ==
    /\ pool.op = "decoded" /\ ~pool.res.panic /\ Len(pool.recs) = 3
    /\ pool.recs[1].len > 0 /\ pool.recs[1].ref > 0
    /\ pool.recs[2].ref = 0 /\ pool.recs[2].len > 0
    /\ pool.recs[3].len = 0 /\ pool.recs[3].ref > 0 /\ pool.recs[3].big > 0
    /\ pool.res.strs[3] # <<>>

AllNonEmpty(list) == \A i \in 1..Len(list) : list[i] # <<>>

\* C10 as stated: the pool of one (len, refcount = 1) record per string
\* decodes to the original list, empty strings included.
C10_RoundTripAnyList ==
    (pool.op = "decoded" /\ ~pool.lead) =>
        (~pool.res.panic /\ pool.res.strs = pool.list)

\* C10, amended: a list of non-empty strings emitted as (len, refcount = 1)
\* records decodes to itself; index 0 of the decoded vector is the empty
\* string when, and only when, the pool begins with a refcount-0 record.
C10_RoundTripNonEmpty ==
    (pool.op = "decoded" /\ AllNonEmpty(pool.list)) =>
        /\ ~pool.res.panic
        /\ pool.res.strs = (IF pool.lead THEN <<<<>>>> ELSE <<>>) \o pool.list

\* Three non-empty strings of different lengths after a leading record.
C10_Witness ==
    /\ pool.op = "decoded" /\ pool.lead /\ Len(pool.list) = 3
    /\ AllNonEmpty(pool.list) /\ Len(pool.list[1]) # Len(pool.list[2])
    /\ Len(pool.res.strs) = 4

\* decodeName on encoded names and on names of any runes.
InitName == NameInit /\ CabSideIdle /\ msi = MsiIdle /\ vfs = VfsIdle /\ drv = DrvIdle

NextName == NameDecode

SpecName == InitName /\ [][NextName]_vars

\* msi.Parse on documents with and without faults.
InitMsi == MsiInit /\ CabSideIdle /\ nm = NmIdle /\ vfs = VfsIdle /\ drv = DrvIdle

NextMsi == MsiParse

SpecMsi == InitMsi /\ [][NextMsi]_vars

\* A tree under the Create calls of the driver.
InitVfs == VfsInit /\ CabSideIdle /\ nm = NmIdle /\ msi = MsiIdle /\ drv = DrvIdle

NextVfs == VfsCreate

SpecVfs == InitVfs /\ [][NextVfs]_vars

\* A run of the driver from buildWinSDK to out.Close().
InitDriver == DrvInit /\ er = ErIdle /\ pool = PoolIdle /\ nm = NmIdle /\ msi = MsiIdle /\ vfs = VfsIdle

NextDriver == DrvNext \/ DrvCopy \/ DrvVCStart \/ DrvVCFile \/ DrvVCCopy \/ DrvClose

SpecDriver == InitDriver /\ [][NextDriver]_vars

\* A Cabinet whose first file has any offset and size, under any sequence of
\* calls.
InitSeg == SegInit /\ er = ErIdle /\ pool = PoolIdle /\ RestIdle

NextSeg == CabNext \/ CabRead \/ CabContent \/ CabContentRead

SpecSeg == InitSeg /\ [][NextSeg]_vars

\* parseTable on any table of up to MaxCells cells.
InitTable == TableInit /\ CabSideIdle /\ nm = NmIdle /\ vfs = VfsIdle /\ drv = DrvIdle

NextTable == TableParse

SpecTable == InitTable /\ [][NextTable]_vars

\* The walk of buildVCTools over any manifest of up to MaxPkgs packages.
InitChase == ChaseInit /\ CabSideIdle /\ nm = NmIdle /\ msi = MsiIdle /\ vfs = VfsIdle

NextChase == ChaseArch \/ ChaseCall \/ ChaseLoop \/ ChaseReturn \/ ChaseDone

SpecChase == InitChase /\ [][NextChase]_vars

\* A Cabinet under any sequence of Next and Read calls, Next called again
\* after an error.
InitRetry == RetryInit /\ er = ErIdle /\ pool = PoolIdle /\ RestIdle

NextRetry == CabNext \/ CabRead

SpecRetry == InitRetry /\ [][NextRetry]_vars

(***************************************************************************)
(* Properties of New.                                                      *)
(***************************************************************************)

Zero3 == <<Wide(0, 2), Wide(0, 2), Wide(0, 2)>>

\* The error kinds New owes a description, one for each fault in it.
FaultKinds(d) ==
    (IF d.sig # <<77, 83, 67, 70>> THEN {"signature"} ELSE {})
    \cup (IF d.res # Zero3 THEN {"reserved"} ELSE {})
    \cup (IF d.ver # <<3, 1>> THEN {"version"} ELSE {})
    \cup (IF HasFlag(d.flags, 1) \/ HasFlag(d.flags, 2) THEN {"multipart"} ELSE {})
    \cup (IF HasFlag(d.flags, 4) /\ (d.rsv.cbFolder # 0 \/ d.rsv.cbData # 0)
          THEN {"reserve"} ELSE {})
    \cup (IF \E i \in 1..Len(d.folders) : d.folders[i].comp % 16 \notin {0, 1}
          THEN {"compression"} ELSE {})

Whole == cab.src = EncCabinet(desc)

\* The folder entries as the description has them.
FoldersOf(d) ==
    [i \in 1..Len(d.folders) |->
        [COFFCabStart |-> Wide(DataAt(d, i), 2), CCFData |-> d.folders[i].ccf,
         TypeCompress |-> d.folders[i].comp]]

\* C5: New returns an error for a signature other than MSCF, a nonzero
\* reserved field, a version other than 1.3, a prev- or next-cabinet flag, a
\* reserve descriptor with nonzero cb_folder or cb_data, and a folder whose
\* compression has a low nibble other than 0 and 1, the error of one of the
\* faults present when the file is whole; and a whole file without a fault
\* whose reserve descriptor announces cb_header bytes is accepted with the
\* folder entries read from just behind those bytes.
C5_NewRejects ==
    cab.st # "raw" =>
        /\ FaultKinds(desc) # {} => cab.st = "failed"
        /\ FaultKinds(desc) # {} /\ Whole => cab.err \in FaultKinds(desc)
        /\ FaultKinds(desc) = {} /\ Whole =>
               /\ cab.st = "ready"
               /\ cab.fldrs = FoldersOf(desc)

C5_Witness ==
    /\ cab.st = "ready"
    /\ HasFlag(desc.flags, 4) /\ desc.rsv.cbHeader = 2
    /\ Len(cab.fldrs) = 2
    /\ cab.fldrs[2].COFFCabStart = Wide(36 + 4 + 2 + 16, 2)
    /\ cab.fldrs[2].TypeCompress = 17

BadMagic == cab.st # "raw" /\ Bytes(cab.src, 0, 4) # <<77, 83, 67, 70>>

\* C6 as stated: every input whose first four bytes are not MSCF fails with
\* the signature error, the source no further than those four bytes.
C6_SignatureOnly == BadMagic => cab.err = "signature" /\ cab.pos <= 4

\* C6: every input whose first four bytes are not MSCF fails: with the
\* signature error when it has the 36 bytes of a CFHEADER, which have all
\* been read by then, and with the error of a header cut short when it has
\* not, all of it read.
C6_SignatureAfterHeader ==
    BadMagic =>
        /\ cab.st = "failed"
        /\ Len(cab.src) >= 36 => cab.err = "signature" /\ cab.pos = 36
        /\ Len(cab.src) < 36 => cab.err = "header" /\ cab.pos = Len(cab.src)

C6_Witness ==
    /\ BadMagic
    /\ cab.err = "signature" /\ cab.pos = 36 /\ Len(cab.src) > 36
    /\ FaultKinds(desc) = {"signature"}

(***************************************************************************)
(* Properties of a Cabinet in use.                                         *)
(***************************************************************************)

\* A file entry as New keeps it.
AsFile(f) ==
    [CBFile |-> f.size, UOffFolderStart |-> f.uoff, IFolder |-> f.ifolder,
     name |-> f.name]

Count(files, x) == Cardinality({i \in 1..Len(files) : files[i] = x})

\* (folder_index, folder_uoffset) of a before that of b.
PairLess(a, b) ==
    \/ a.IFolder < b.IFolder
    \/ a.IFolder = b.IFolder /\ LessW(a.UOffFolderStart, b.UOffFolderStart)

LastHdr == out.hdrs[Len(out.hdrs)]

\* C1: the files of an accepted Cabinet are the CFFILE entries in ascending
\* order of (folder_index, folder_uoffset); the k-th header Next returns is
\* that of the k-th of them, and Next returns end-of-stream when it has
\* returned them all; after a header, Read delivers the uncompressed_size
\* bytes set up for the file and then end-of-stream, nothing else.
C1_SortedHeaders ==
    /\ \A i \in 1..(Len(cab.files) - 1) : ~PairLess(cab.files[i + 1], cab.files[i])
    /\ Len(cab.files) = Len(desc.files)
    /\ \A i \in 1..Len(desc.files) :
           Count(cab.files, AsFile(desc.files[i]))
               = Count(desc.files, desc.files[i])
    /\ \A k \in 1..Len(out.hdrs) : out.hdrs[k].idx = k
    /\ cab.fileIdx = Len(out.hdrs)
    /\ out.op = "Next" /\ out.res = "eof" => Len(out.hdrs) = Len(cab.files)
    /\ out.hdrs # <<>> =>
           /\ Len(LastHdr.data) = NatOf(cab.files[LastHdr.idx].CBFile)
           /\ out.got \o cab.fileReader.data = LastHdr.data
           /\ out.op = "Read" => out.err \in {"nil", "EOF"}
           /\ out.op = "Read" /\ out.err = "EOF" => out.got = LastHdr.data
           /\ out.op = "Read" /\ out.err = "nil" => out.bytes # <<>>

C1_Witness ==
    /\ Len(out.hdrs) = 2
    /\ AsFile(desc.files[1]) # cab.files[1]
    /\ out.op = "Read" /\ out.err = "EOF" /\ Len(out.got) = 2
    /\ cab.files[1].IFolder # cab.files[2].IFolder

\* The folder idx read from its first block to its end.
FolderBytes(idx) ==
    LET fd == folderData(cab, idx)
    IN  ReadAll(cab, fd.f, fd.pos, <<>>)

\* The file lies within a folder that decompresses without an error.
Served(f) ==
    /\ f.IFolder < Len(cab.fldrs)
    /\ FolderBytes(f.IFolder).err = "nil"
    /\ ~LessW(Wide(Len(FolderBytes(f.IFolder).data), 4), SegmentEnd(f))

Segment(f) ==
    SubSeq(FolderBytes(f.IFolder).data, NatOf(f.UOffFolderStart) + 1,
           NatOf(f.UOffFolderStart) + NatOf(f.CBFile))

\* C3: Content of the name of a file that lies within a folder that
\* decompresses returns a reader; read to its end with no other call in
\* between, the reader delivers bytes [folder_uoffset, folder_uoffset+size)
\* of the decompressed folder and then end-of-stream, without an error; and
\* whenever Next has exposed the same file, these are the bytes it set up
\* for Read, wherever in the blocks the file starts or ends.
C3_ContentEqualsNext ==
    /\ out.op = "Content" /\ out.name \in Names(cab.files)
           /\ Served(cab.files[FindFrom(cab.files, out.name, 1)])
           => out.res = "reader" /\ rd.idx = FindFrom(cab.files, out.name, 1)
    /\ rd.st # "none" /\ rd.clean /\ Served(cab.files[rd.idx]) =>
           /\ rd.st \in {"open", "eof"}
           /\ rd.got = SubSeq(Segment(cab.files[rd.idx]), 1, Len(rd.got))
           /\ rd.st = "eof" => rd.got = Segment(cab.files[rd.idx])
    /\ \A k \in 1..Len(out.hdrs) :
           rd.st = "eof" /\ rd.clean /\ rd.idx = out.hdrs[k].idx
               => rd.got = out.hdrs[k].data

C3_Witness ==
    /\ rd.st = "eof" /\ rd.clean
    /\ cab.fldrs[cab.files[rd.idx].IFolder + 1].TypeCompress = 1
    /\ cab.files[rd.idx].UOffFolderStart = Wide(1, 2)
    /\ rd.got = <<21, 20>>
    /\ \E k \in 1..Len(out.hdrs) : out.hdrs[k].idx = rd.idx /\ out.hdrs[k].data = rd.got

\* C4 as stated: no Next, Content or read of a Content reader on an accepted
\* Cabinet panics on a nil block reader.
C4_NeverPanics == ~(out.res = "panic" /\ out.op \in {"Next", "Content", "ContentRead"})

\* C7: a Content call with a name no file has returns the not-found error and
\* changes nothing: the file cursor, the folder index, the folder buffer, the
\* file reader and the position of the source stay, and so does a reader an
\* earlier Content returned.
C7_NotFoundChangesNothing ==
    [][(out'.op = "Content" /\ out'.name \notin Names(cab.files))
           => (out'.res = "err" /\ out'.err = "notfound" /\ cab' = cab /\ rd' = rd)]_vars

C7_Witness ==
    /\ out.op = "Content" /\ out.err = "notfound"
    /\ cab.fileIdx > 0 /\ cab.fileReader.set /\ cab.folderBuf # <<>>
    /\ cab.pos > 0 /\ rd.st = "open" /\ rd.got # <<>>

(***************************************************************************)
(* Properties of an MSZIP folder.                                          *)
(***************************************************************************)

\* The decoders the reader of Content has made so far.
Made == 1..Len(rd.f.dicts)

\* The history buffer holds the bytes read from the last decoder made, and
\* each decoder was made with the bytes read from the one before.
DictIsPrevious ==
    /\ \A k \in Made : k > 1 => rd.f.dicts[k] = rd.f.outs[k - 1]
    /\ Made # {} => rd.f.dicts[1] = <<>>
    /\ Made # {} => rd.f.lastBlock = rd.f.outs[Len(rd.f.outs)]

\* The streams of the folder, and the content they were made from: each
\* decoded with the window running on from the stream before.
Streams == [i \in 1..Len(desc.folders[1].blocks) |->
               SubSeq(desc.folders[1].blocks[i].payload, 3,
                      Len(desc.folders[1].blocks[i].payload))]

Content0 == Original(Streams, 1, <<>>)

\* Every copy of the streams has its source in the running window.
Decodable == Content0.ok

\* Besides, every block but the first and the last fills the window: then
\* the window at the start of a block is within the output of the block
\* before.
Regular ==
    /\ Decodable
    /\ \A i \in 2..(Len(Streams) - 1) : Len(Content0.outs[i]) >= WinSize

\* The files of a folder for which sound holds are delivered as the content
\* the folder was made from, by the reader of Content and by Next, and
\* without an error.
BitIdenticalWhen(sound) ==
    /\ rd.st = "eof" /\ rd.clean /\ sound
           => rd.got = SubSeq(Flat(Content0.outs),
                              NatOf(cab.files[rd.idx].UOffFolderStart) + 1,
                              Len(Flat(Content0.outs)))
    /\ cab.folderIdx = 0 /\ out.hdrs # <<>> /\ sound
           => cab.folderBuf = Flat(Content0.outs)
    /\ out.op = "Next" /\ out.res \in {"err", "panic"} => ~sound
    /\ rd.clean /\ rd.st \in {"err", "panic"} => ~sound

BitIdentical == BitIdenticalWhen(Regular)

\* C2 as stated: the dictionary of the decoder of block k+1 is the output of
\* block k and is empty only for the first block, the history buffer holds
\* the output of no other block, and the files of every folder, whatever the
\* lengths of its blocks, are read as the original content.
C2_AsStated ==
    /\ DictIsPrevious
    /\ \A k \in Made : rd.f.dicts[k] = <<>> => k = 1
    /\ BitIdenticalWhen(Decodable)

\* The two states C2 as stated does not allow.  The block after a block
\* without output starts with the empty dictionary, in a folder that is read
\* as its original content.
EmptyAfterEmptyBlock ==
    /\ rd.st = "eof" /\ rd.clean /\ rd.idx = 1
    /\ Streams = <<<<TokBase>>, <<31, 32, TokBase>>>>
    /\ rd.f.dicts = <<<<>>, <<>>>>
    /\ rd.got = <<31, 32>>
    /\ BitIdenticalWhen(Decodable)

\* No block of the folder is without output and no dictionary but the first
\* is empty; the second block is shorter than the window, the copy at the
\* start of the third has its source in the first block, and the reader
\* fails where the original content has one more byte.
ShortMiddleBlock ==
    /\ rd.st = "err" /\ rd.clean /\ rd.idx = 1
    /\ Streams = <<<<31, 32, TokBase>>, <<30, TokBase>>, <<TokBase + 2, TokBase>>>>
    /\ rd.f.dicts = <<<<>>, <<31, 32>>, <<30>>>>
    /\ rd.got = <<31, 32, 30>>
    /\ Decodable /\ Flat(Content0.outs) = <<31, 32, 30, 32>>
    /\ ~Regular

\* C2: the dictionary of the decoder of block k+1 is the output of block k,
\* so it is empty for the first block and after a block without output and
\* for no other; the history buffer holds the output of no other block, and
\* the files read are the original content when every block between the
\* first and the last fills the window.
C2_DictIsPreviousBlock ==
    /\ DictIsPrevious
    /\ \A k \in Made : rd.f.dicts[k] = <<>> => k = 1 \/ rd.f.outs[k - 1] = <<>>
    /\ \A k \in Made : k > 1 /\ rd.f.outs[k - 1] # <<>> => rd.f.dicts[k] # <<>>
    /\ BitIdentical

\* A folder of three blocks whose second block fills the window is read to
\* its end: the third block copies from the second.
C2_Witness ==
    /\ rd.st = "eof" /\ rd.clean /\ rd.idx = 1
    /\ Regular /\ Len(Streams) = 3
    /\ rd.f.dicts = <<<<>>, <<30>>, <<31, 32>>>>
    /\ rd.got = <<30, 31, 32, 34, 32>>

(***************************************************************************)
(* Properties of decodeName.                                               *)
(***************************************************************************)

NameDone == nm.st = "done"

\* A rune in [0x4800, 0x4840] decodes to its one glyph, a rune outside
\* [0x3800, 0x4840] to itself, and the alphabet is never indexed outside.
SinglesAndOthers ==
    NameDone =>
        /\ ~nm.panic
        /\ nm.kind = "runes" =>
               \A i \in 1..Len(nm.name) :
                   /\ nm.name[i] >= 18432 /\ nm.name[i] <= 18496 /\ Len(nm.name) = 1
                          => nm.res = <<msiNameAlphabet[nm.name[i] - 18432 + 1]>>
                   /\ (\A j \in 1..Len(nm.name) :
                           nm.name[j] < 14336 \/ nm.name[j] > 18496)
                          => nm.res = nm.name

\* C11 as stated: the alphabet has 64 glyphs, and decodeName undoes the
\* packing of the glyph pairs of every string over it.
C11_RoundTripAllPairs ==
    /\ Len(msiNameAlphabet) = 64
    /\ NameDone /\ nm.kind = "allpairs" => nm.res = TextOf(nm.s)
    /\ SinglesAndOthers

\* C11: the alphabet has 65 glyphs, '!' the last; decodeName undoes the
\* encoding that packs pairs of the first 64 glyphs into 0x3800 + i + 64*j and
\* writes every other glyph as 0x4800 + i; every rune in [0x4800, 0x4840]
\* decodes to its one glyph, inside the alphabet, and every rune outside
\* [0x3800, 0x4840] stays.
C11_RoundTripPacked ==
    /\ Len(msiNameAlphabet) = 65
    /\ msiNameAlphabet[65] = 33
    /\ NameDone /\ nm.kind = "packed" => nm.res = TextOf(nm.s)
    /\ SinglesAndOthers

C11_Witness ==
    /\ NameDone /\ nm.kind = "packed"
    /\ nm.s = <<64, 62, 63>>
    /\ nm.name = <<18496, 18430>>
    /\ nm.res = <<33, 46, 95>>

(***************************************************************************)
(* Properties of msi.Parse.                                                *)
(***************************************************************************)

\* Parse returned its result for a document without a fault.
ParsedWhole == msi.st = "parsed" /\ msi.sc.fault = "none" /\ msi.res.outcome = "ok"

DirPathOf(key) == MapGet(msi.res.dirPaths, key, <<>>)

FilePathOf(key) == MapGet(msi.res.FileMap, key, <<>>)

\* The long names of the rows 1..k of the chain, joined with '/'.
ChainPath(k) == JoinSlash([i \in 1..k |-> LongName(i, msi.sc)])

\* C12: the row TARGETDIR counts as "." whatever its DefaultDir, in the paths
\* of the rows below it and in its own path, so that a file of a component
\* in TARGETDIR maps to its long file name.
C12_TargetDirIsDot ==
    ParsedWhole /\ msi.sc.variant = "chain" =>
        /\ \A k \in 1..msi.sc.n : DirPathOf(DirKey(k)) = ChainPath(k)
        /\ DirPathOf(TARGETDIR) = Dot
        /\ FilePathOf(FileKey(0)) = FileLong(0)

\* C13: the path of a row of a chain without a cycle, of any depth, is the
\* long names of the chain from the root to the row, joined with '/' (the
\* "." of TARGETDIR at the start left out).
C13_PathIsRootToLeaf ==
    ParsedWhole => \A k \in 1..msi.sc.n : DirPathOf(DirKey(k)) = ChainPath(k)

C13_Witness ==
    /\ ParsedWhole
    /\ msi.sc.n > BlockSize
    /\ msi.sc.variant = "chain"
    /\ Len(SplitAt(DirPathOf(DirKey(msi.sc.n)), Slash)) = msi.sc.n
    /\ DirPathOf(DirKey(msi.sc.n)) = ChainPath(msi.sc.n)

\* The cabinets of the Media rows that name one.
NamedCabs == SelectSeq(msi.sc.cabs, LAMBDA c : c # <<>>)

\* C14 as stated: CABFiles is the cabinets of the Media rows that name one,
\* in the order of the rows, and no cabinet is in it twice.
C14_CabFilesDistinct ==
    ParsedWhole =>
        /\ msi.res.CABFiles = NamedCabs
        /\ \A i, j \in 1..Len(msi.res.CABFiles) :
               i # j => msi.res.CABFiles[i] # msi.res.CABFiles[j]

\* C14: CABFiles has one entry for every Media row that names a cabinet, in
\* the order of the rows; a cabinet that two rows name is in it twice.
C14_CabFilesPerMediaRow ==
    ParsedWhole =>
        /\ msi.res.CABFiles = NamedCabs
        /\ Len(msi.res.CABFiles)
               = Cardinality({i \in 1..Len(msi.sc.cabs) : msi.sc.cabs[i] # <<>>})

C14_Witness ==
    /\ ParsedWhole
    /\ Len(msi.sc.cabs) = 2
    /\ msi.sc.cabs[1] = msi.sc.cabs[2]
    /\ msi.res.CABFiles = <<<<97, 46, 99, 97, 98>>, <<97, 46, 99, 97, 98>>>>

\* The faults of C15: a pool that ends inside a record, a record longer than
\* the string data that is left, a table whose length is not a multiple of
\* its number of columns.
MalformedFaults ==
    {"poolcut1", "poolcut3", "longrec", "overrec", "dirextra", "mediaextra"}

\* C15: Parse answers a malformed document with a returned error, never with
\* a panic or the end of the process.
C15_MalformedIsError ==
    msi.st = "parsed" /\ msi.sc.fault \in MalformedFaults => msi.res.outcome = "error"

(***************************************************************************)
(* Properties of the VFS tree.                                             *)
(***************************************************************************)

\* The inode reached from r along the segments of dir, at every step the
\* first child with the name of the segment, case folded.  <<>> when a
\* segment has no such child.
RECURSIVE Reach(_, _)
Reach(r, dir) ==
    IF dir = <<>> THEN <<r>>
    ELSE The({IF k = 0 THEN <<>> ELSE Reach(r.Contents[k], Tail(dir)) :
                k \in {FirstMatch(r.Contents, TRUE, Head(dir), 1)}})

\* The inodes of the tree of r.
RECURSIVE Inodes(_)
Inodes(r) == {r} \cup UNION {Inodes(r.Contents[k]) : k \in 1..Len(r.Contents)}

\* Every list of children of old is the start of the list it has become.
RECURSIVE Grown(_, _)
Grown(old, new) ==
    /\ old.Type = new.Type /\ old.Name = new.Name
    /\ Len(old.Contents) <= Len(new.Contents)
    /\ \A k \in 1..Len(old.Contents) : Grown(old.Contents[k], new.Contents[k])

\* The calls of Create that placed their inode.
Placed == {k \in 1..Len(vfs.calls) : ~vfs.calls[k].err}

\* The inode of a call is a child of a directory that its path leads to.
UnderItsDirectory(p) ==
    /\ Reach(vfs.root, SplitAt(PathDir(p), Slash)) # <<>>
    /\ Reach(vfs.root, SplitAt(PathDir(p), Slash))[1].Type = "directory"
    /\ \E k \in 1..Len(Reach(vfs.root, SplitAt(PathDir(p), Slash))[1].Contents) :
           Reach(vfs.root, SplitAt(PathDir(p), Slash))[1].Contents[k] = CreatedInode(p)

\* No directory has two directories of one name, case folded, among its
\* children.
NoTwinDirectories ==
    \A d \in Inodes(vfs.root) :
        \A i, j \in 1..Len(d.Contents) :
            i # j /\ d.Contents[i].Type = "directory" /\ d.Contents[j].Type = "directory"
                => ~EqualFold(d.Contents[i].Name, d.Contents[j].Name)

\* C16: after the Create calls of the driver every placed inode is a child
\* of the directory its path leads to from the root, case folded; no
\* directory has two child directories of one name, case folded; and the
\* children of every inode stay in the order they came in.
C16_PlacedUnderDirectory ==
    /\ [](\A k \in Placed : UnderItsDirectory(vfs.calls[k].p))
    /\ []NoTwinDirectories
    /\ [][Grown(vfs.root, vfs'.root)]_vars

\* A segment of dir has the name, case folded, of a child that is not a
\* directory, in the directory the segments before it lead to.
RECURSIVE Collides(_, _)
Collides(r, dir) ==
    /\ dir # <<>>
    /\ \/ \E k \in 1..Len(r.Contents) :
              r.Contents[k].Type # "directory" /\ EqualFold(r.Contents[k].Name, Head(dir))
       \/ /\ Reach(r, <<Head(dir)>>) # <<>>
          /\ Collides(Reach(r, <<Head(dir)>>)[1], Tail(dir))

\* C17: a Place whose dir has a segment, the last one too, that matches a
\* child that is not a directory returns an error, and no inode of type
\* file ever has children.
C17_FileCollisionFails ==
    /\ [][\A p \in VfsPaths :
              /\ Collides(vfs.root, SplitAt(PathDir(p), Slash))
              /\ Len(vfs'.calls) = Len(vfs.calls) + 1
              /\ vfs'.calls[Len(vfs'.calls)].p = p
              => vfs'.calls[Len(vfs'.calls)].err]_vars
    /\ [](\A d \in Inodes(vfs.root) : d.Type = "file" => d.Contents = <<>>)


(***************************************************************************)
(* Properties of the driver.                                               *)
(***************************************************************************)

\* Segment i of a path, counted from 0 and case-folded; nothing where the
\* path has no such segment.
PathSegment(p, i) ==
    IF i < Len(SplitAt(p, Slash)) THEN ToLower(SplitAt(p, Slash)[i + 1]) ELSE <<>>

\* The files the claim keeps.
KeptByRule(p, slim, archs) ==
    \/ /\ PathSegment(p, 2) = Include
       /\ slim => ToLower(PathExt(p)) \in IncludeExts
    \/ /\ PathSegment(p, 2) = Lib
       /\ PathSegment(p, 5) \in archs
       /\ slim => ToLower(PathExt(p)) \in LibExts

\* C18: in buildWinSDK a file of the cabinet with a known output path is
\* handed to the sink exactly when segment 2 of the path, case-folded, is
\* "include" and, in slim mode, its lower-cased extension is .h, .hpp, .c,
\* .cpp or empty, or segment 2 is "lib", segment 5 is a requested
\* architecture and, in slim mode, the extension is .lib or .obj; every other
\* file is dropped.
C18_WrittenExactlyWhenKept ==
    (drv.st = "run" /\ drv.last.by = "sdk" /\ drv.last.path # <<>>) =>
        /\ drv.last.decision = "write" <=>
               KeptByRule(drv.last.path, drv.slim, drv.archs)
        /\ ~KeptByRule(drv.last.path, drv.slim, drv.archs) =>
               drv.last.decision = "drop"

\* The bytes written between the events i and j of the log.
RECURSIVE Written(_, _, _)
Written(log, i, j) ==
    IF i + 1 >= j THEN 0
    ELSE log[i + 1].n + Written(log, i + 1, j)

\* Event j is the first after event i that is not a Write.
NextMark(log, i, j) ==
    /\ i < j /\ j <= Len(log)
    /\ log[j].ev # "write"
    /\ \A k \in (i + 1)..(j - 1) : log[k].ev = "write"

\* C19: in every run of the driver each Create(path, size) on the sink is
\* followed by Writes of size bytes in all before the next Create or the
\* Close, never by more, and no Write comes before the first Create; so it
\* is after files of the cabinet were skipped, and for vfsoverlay.yaml.
C19_WritesTotalSize ==
    drv.st = "run" =>
        /\ drv.log # <<>> => drv.log[1].ev = "create"
        /\ \A i \in 1..Len(drv.log) :
               drv.log[i].ev = "create" =>
                   /\ \A j \in (i + 1)..Len(drv.log) :
                          NextMark(drv.log, i, j) =>
                              Written(drv.log, i, j) = drv.log[i].n
                   /\ (\A j \in (i + 1)..Len(drv.log) : drv.log[j].ev = "write") =>
                          Written(drv.log, i, Len(drv.log) + 1) <= drv.log[i].n

\* A run that dropped the first file of the cabinet, wrote the second, which
\* lies behind it in the same folder, and the third, and closed the sink.
C19_Witness ==
    /\ drv.st = "run" /\ drv.pc = "done"
    /\ MapGet(drv.fileMap, <<97>>, <<>>) = <<75, 47, 49, 47, 98, 105, 110, 47, 116, 46, 101, 120, 101>>
    /\ drv.log[1] = Event("create", <<75, 47, 49, 47, 105, 110, 99, 108, 117, 100, 101, 47, 118, 47, 117, 109, 47, 114, 46, 84, 88, 84>>, 2)
    /\ \E i, j \in 1..(Len(drv.log) - 1) :
           /\ NextMark(drv.log, 1, i)
           /\ drv.log[i] = Event("create", <<75, 47, 49, 47, 76, 105, 98, 47, 118, 47, 117, 109, 47, 120, 54, 52, 47, 107, 46, 76, 105, 98>>, 2)
           /\ NextMark(drv.log, i, j)
           /\ drv.log[j].ev = "create" /\ drv.log[j].path = OverlayName
           /\ drv.log[j].n > 0
           /\ drv.log[j + 1] = Event("write", <<>>, drv.log[j].n)

\* The Creates of the log, and those of vfsoverlay.yaml.
CreatesOf(log) == {i \in 1..Len(log) : log[i].ev = "create"}

OverlaysOf(log) == {i \in CreatesOf(log) : log[i].path = OverlayName}

\* The closes of files the directory sink makes in Create: of the file
\* extracted before.
FileClosesOf(log) ==
    {i \in 1..Len(log) : log[i].ev = "close-file" /\ log[i].path \notin {<<>>, OverlayName}}

\* The closes of the Close of the inner sink: the resources of the archive,
\* or the file the directory sink holds at the end, vfsoverlay.yaml.
ClosesOf(log) ==
    {i \in 1..Len(log) : log[i].ev \in {"close-tar", "close-zstd", "close-file"}}
        \ FileClosesOf(log)

\* The last Create before event i.
LastCreate(log, i) ==
    CHOOSE j \in CreatesOf(log) : j < i /\ \A k \in CreatesOf(log) : k < i => k <= j

\* The file inodes of a document.
FileInodes(doc) == {i \in 1..(Len(doc) - 1) : doc[i] = 123 /\ doc[i + 1] = 102}

\* The places of a document where pat stands.
Occurs(doc, pat) ==
    {i \in 1..(Len(doc) - Len(pat) + 1) : SubSeq(doc, i, i + Len(pat) - 1) = pat}

\* The events of the log from the first Close on.
ClosedTail(log) ==
    IF ClosesOf(log) = {} THEN <<>>
    ELSE SubSeq(log, CHOOSE i \in ClosesOf(log) : \A j \in ClosesOf(log) : i <= j,
                Len(log))

\* C20: closing the VFS layer writes one entry vfsoverlay.yaml, the last of
\* the run, after every extracted file; its content is the document of the
\* tree, which holds one file inode for each Create before it and none for
\* vfsoverlay.yaml; the inner sink is closed after that entry was written; and
\* the archive sink closes the tar writer, the zstd encoder and the file in
\* this order.  The directory sink closes an extracted file when the next
\* file is created, and in Close the file of vfsoverlay.yaml.
C20_OverlayLastThenClose ==
    drv.st = "run" =>
        /\ Cardinality(OverlaysOf(drv.log)) <= 1
        /\ \A i \in OverlaysOf(drv.log) : \A j \in CreatesOf(drv.log) : j <= i
        /\ \A j \in ClosesOf(drv.log) :
               \E i \in OverlaysOf(drv.log) :
                   /\ i + 1 < j
                   /\ drv.log[i + 1] = Event("write", <<>>, drv.log[i].n)
                   /\ drv.log[i].n = Len(drv.doc)
                   /\ \A k \in (i + 2)..Len(drv.log) : k \in ClosesOf(drv.log)
        /\ \A j \in FileClosesOf(drv.log) :
               /\ drv.sink = "dir"
               /\ \E i \in CreatesOf(drv.log) : i < j
               /\ drv.log[j].path = drv.log[LastCreate(drv.log, j)].path
               /\ j < Len(drv.log) => drv.log[j + 1].ev = "create"
        /\ ClosesOf(drv.log) # {} =>
               /\ drv.doc = MarshalVFS(drv.root)
               /\ Cardinality(FileInodes(drv.doc))
                      = Cardinality(CreatesOf(drv.log) \ OverlaysOf(drv.log))
               /\ Occurs(drv.doc, OverlayName) = {}
        /\ drv.sink = "tar" =>
               \E n \in 0..3 :
                   ClosedTail(drv.log) =
                       SubSeq(<<Event("close-tar", <<>>, 0), Event("close-zstd", <<>>, 0),
                                Event("close-file", <<>>, 0)>>, 1, n)
        /\ drv.pc = "done" =>
               /\ OverlaysOf(drv.log) # {}
               /\ drv.sink = "tar" => Len(ClosedTail(drv.log)) = 3
               /\ drv.sink = "dir" =>
                      ClosedTail(drv.log) = <<Event("close-file", OverlayName, 0)>>

\* A run into the archive that extracted two files of the cabinet and two of
\* the VC tools and closed the sink.
C20_Witness ==
    /\ drv.st = "run" /\ drv.pc = "done" /\ drv.sink = "tar"
    /\ Cardinality(CreatesOf(drv.log)) = 5
    /\ Cardinality(FileInodes(drv.doc)) = 4
    /\ Len(ClosedTail(drv.log)) = 3
    /\ drv.log[Len(drv.log) - 4].path = OverlayName


(***************************************************************************)
(* Properties of the segment check.                                        *)
(***************************************************************************)

\* uoff + size, taken as numbers, is more than n, n below 2^16.
Exceeds(uoff, size, n) ==
    \/ uoff[2] # 0
    \/ size[2] # 0
    \/ uoff[1] + size[1] > n

\* C21: a Next call on a file whose folder was read either returns the error
\* "file segment out of range", exactly when offset plus size as numbers,
\* not wrapped at 32 bits, is more than the length of the folder buffer, or
\* sets up exactly the bytes [offset, offset + size) of that buffer; with the
\* error no header is returned and the file cursor stays.
C21_SegmentChecked ==
    [][(out'.op = "Next" /\ cab.fileIdx < Len(cab.files)
           /\ out'.res # "panic" /\ out'.err \in {"nil", "segment"}) =>
          LET f == cab.files[cab.fileIdx + 1]
          IN  /\ out'.err = "segment" <=>
                     Exceeds(f.UOffFolderStart, f.CBFile, Len(cab'.folderBuf))
              /\ out'.err = "segment" =>
                     /\ out'.res = "err"
                     /\ cab'.fileIdx = cab.fileIdx
                     /\ out'.hdrs = out.hdrs
              /\ out'.err = "nil" =>
                     /\ out'.res = "hdr"
                     /\ cab'.fileIdx = cab.fileIdx + 1
                     /\ cab'.fileReader.set
                     /\ cab'.fileReader.data =
                            SubSeq(cab'.folderBuf, f.UOffFolderStart[1] + 1,
                                   f.UOffFolderStart[1] + f.CBFile[1])
                     /\ Len(cab'.fileReader.data) = f.CBFile[1]]_vars

\* Next refused the file at offset 2^32 - 1 of size 2, whose wrapped end is
\* 1, in a folder of three bytes.
C21_Witness ==
    /\ cab.st = "ready" /\ out.op = "Next" /\ out.err = "segment"
    /\ cab.fileIdx < Len(cab.files)
    /\ cab.files[cab.fileIdx + 1].UOffFolderStart = <<65535, 65535>>
    /\ cab.files[cab.fileIdx + 1].CBFile = Wide(2, 2)
    /\ Len(cab.folderBuf) = 3


(***************************************************************************)
(* Properties of the compression field.                                    *)
(***************************************************************************)

\* The Cabinet with the upper twelve bits of every compression field cleared.
Cleared(c) ==
    [c EXCEPT !.fldrs = [i \in 1..Len(c.fldrs) |->
                            [c.fldrs[i] EXCEPT !.TypeCompress = MaskLow(@)]]]

\* Two Next calls give the same: result, error, and bytes set up for Read.
SameNext(a, b) ==
    /\ a.res = b.res /\ a.err = b.err
    /\ a.c.fileReader = b.c.fileReader
    /\ a.c.fileIdx = b.c.fileIdx

\* Two Content calls give the same: result, error, and what the first Read of
\* the reader delivers.
SameContent(c1, a, c2, b) ==
    /\ a.res = b.res /\ a.err = b.err
    /\ a.res = "reader" =>
           LET x == ContentRead([c1 EXCEPT !.pos = a.pos], a.rd, 2)
               y == ContentRead([c2 EXCEPT !.pos = b.pos], b.rd, 2)
           IN  x.bytes = y.bytes /\ x.err = y.err

\* C22: only the low four bits of a folder's compression field matter: in a
\* Cabinet New accepted, Next and Content give for a folder with any upper
\* twelve bits what they give for the folder with these bits cleared.
C22_UpperBitsIgnored ==
    cab.st = "ready" =>
        /\ SameNext(CabinetNext(cab), CabinetNext(Cleared(cab)))
        /\ \A name \in Names(cab.files) :
               SameContent(cab, CabinetContent(cab, name),
                           Cleared(cab), CabinetContent(Cleared(cab), name))


(***************************************************************************)
(* Properties of the MSZIP signature.                                      *)
(***************************************************************************)

\* The blocks of a folder of the description, counted from 1, whose payload
\* does not begin with "CK".
BadBlocks(fo) ==
    {k \in 1..Len(fo.blocks) :
        /\ fo.comp = CompMSZIP
        /\ SubSeq(fo.blocks[k].payload, 1, 2) # SigCK}

\* The bytes of the folder that lie in the blocks before block k.
RECURSIVE BytesBefore(_, _)
BytesBefore(fo, k) ==
    IF k <= 1 THEN 0 ELSE fo.blocks[k - 1].cbUncomp + BytesBefore(fo, k - 1)

\* The file f has bytes in or behind a block without the signature.
ReachesBad(f, fo) ==
    \E k \in BadBlocks(fo) : Exceeds(f.UOffFolderStart, f.CBFile, BytesBefore(fo, k))

\* Next is about to read the folder of the next file, a folder of the
\* description with a block without the signature.
LoadsBad ==
    /\ cab.fileIdx < Len(cab.files)
    /\ cab.files[cab.fileIdx + 1].IFolder # cab.folderIdx
    /\ cab.files[cab.fileIdx + 1].IFolder < Len(desc.folders)
    /\ BadBlocks(desc.folders[cab.files[cab.fileIdx + 1].IFolder + 1]) # {}

\* The reader Content returned, with the source left to it, is over a file
\* with bytes in or behind a block without the signature.
ReadsBad ==
    /\ rd.st = "open" /\ rd.clean
    /\ ReachesBad(cab.files[rd.idx], desc.folders[cab.files[rd.idx].IFolder + 1])

\* C23: when a block of an MSZIP folder, the first or a later one, does not
\* begin with "CK", the Next call that reads the folder returns the error of
\* the invalid signature, and so does reading a reader Content returned for
\* a file with bytes in or behind that block: the reading ends in that
\* error.
C23_BadSignatureIsError ==
    /\ [][(out'.op = "Next" /\ LoadsBad) =>
             (out'.res = "err" /\ out'.err = "badsig")]_vars
    /\ [][(out'.op = "ContentRead" /\ ReadsBad /\ rd'.st # "open") =>
             (rd'.st = "err" /\ out'.err = "badsig")]_vars


(***************************************************************************)
(* Properties of the alignment of the blocks.                              *)
(***************************************************************************)

\* Where the data header of block h, counted from 0, of folder i of the
\* description lies in the file: the offset of the folder's data and, for
\* each block before h, its header and its payload.
RECURSIVE BlockStart(_, _)
BlockStart(i, h) ==
    IF h = 0 THEN SeekTo(cab.fldrs[i + 1].COFFCabStart)
    ELSE BlockStart(i, h - 1) + DataSize + desc.folders[i + 1].blocks[h].cbData

\* The payload bytes nextBlock itself reads of a block: the signature.
SigLen(i) == IF desc.folders[i + 1].comp = CompMSZIP THEN 2 ELSE 0

\* The reader f with the source at pos has read the headers of h blocks (one
\* more than it counts when the last gave an error), and what the bounded
\* reader of the last still holds ends at the next header.
AlignedAt(f, pos, h) ==
    /\ h \in 0..Len(desc.folders[f.fldr + 1].blocks)
    /\ pos + Max(f.rawN, 0) = BlockStart(f.fldr, h)

\* nextBlock on the aligned reader reads the header of block h where it
\* lies, whatever the bounded reader of the block before still holds, and
\* leaves the reader aligned for block h + 1.
HeaderAligned(f, pos, h) ==
    (h < Len(desc.folders[f.fldr + 1].blocks) /\ f.blockIdx < Len(desc.folders[f.fldr + 1].blocks)) =>
        LET nb == nextBlock(f, pos, cab.src, cab.fldrs)
        IN  /\ CanRead(cab.src, BlockStart(f.fldr, h), DataSize + SigLen(f.fldr)) =>
                   /\ nb.pos = BlockStart(f.fldr, h) + DataSize + SigLen(f.fldr)
                   /\ nb.pos + nb.f.rawN = BlockStart(f.fldr, h + 1)
            /\ nb.pos <= BlockStart(f.fldr, h + 1)

\* Next has just read a whole folder.
FolderRead ==
    /\ out'.op = "Next" /\ out'.res = "hdr"
    /\ cab.files[cab.fileIdx + 1].IFolder # cab.folderIdx

\* C24: whenever the folder reader reads the data header of the next block
\* the source stands exactly at the offset of the folder's data plus, for
\* each block before, 8 and its cb_data, whether the decoder took the
\* payload of the block or left it unread; closing the bounded reader takes
\* the unread remainder and no byte behind the block; and Next, having read
\* a folder, leaves the source in the payload of its last block or at its
\* end.
C24_BlocksAligned ==
    /\ []((rd.st \in {"open", "eof"} /\ rd.clean) =>
             \E h \in {rd.f.blockIdx, rd.f.blockIdx + 1} :
                 /\ AlignedAt(rd.f, cab.pos, h)
                 /\ HeaderAligned(rd.f, cab.pos, h))
    /\ [][FolderRead =>
             LET i == cab'.folderIdx
                 n == Len(desc.folders[i + 1].blocks)
             IN  /\ BlockStart(i, n - 1) + DataSize + SigLen(i) <= cab'.pos
                 /\ cab'.pos <= BlockStart(i, n)]_vars

\* A reader Content returned stands behind a block whose payload the decoder
\* never read: the block holds no byte of content, the bounded reader holds
\* the payload behind the signature, and another block follows.
C24_Witness ==
    /\ rd.st = "open" /\ rd.clean
    /\ rd.f.kind = "zip" /\ ~rd.f.started /\ rd.f.want = 0 /\ rd.f.rawN > 0
    /\ rd.f.blockIdx = 1 /\ Len(desc.folders[1].blocks) = 2
    /\ nextBlock(rd.f, cab.pos, cab.src, cab.fldrs).err = "nil"
    /\ nextBlock(rd.f, cab.pos, cab.src, cab.fldrs).pos > cab.pos + DataSize + 2


(***************************************************************************)
(* Properties of parseTable.                                               *)
(***************************************************************************)

\* The cell of row i, column j, both counted from 0, of a table of R rows.
CellAt(data, R, i, j) == data[R * j + i + 1]

\* C25: parseTable, for C columns and R = len/C rows, gives row i column j
\* the value data[R*j + i]: a numeric column holds the number, a string
\* column the string of the table at that index, and the empty string when
\* the index is not below the length of the table, whatever the rows before
\* hold.
C25_CellsByColumn ==
    (msi.st = "tabled" /\ ~msi.panic) =>
        LET C == Len(msi.cols)
            R == Len(msi.data) \div C
        IN  /\ Len(msi.rows) = R
            /\ \A i \in 0..(R - 1), j \in 0..(C - 1) :
                   msi.rows[i + 1][j + 1] =
                       IF msi.cols[j + 1] = "u" THEN CellAt(msi.data, R, i, j)
                       ELSE IF CellAt(msi.data, R, i, j) < Len(msi.strs)
                       THEN msi.strs[CellAt(msi.data, R, i, j) + 1]
                       ELSE <<>>


\* C26: msi.Parse comes to an end on every Directory table, also one in
\* which a row is its own parent or the parents form a longer cycle: the walk
\* up the parents finds the cycle and Parse fails, it does not go round.
C26_ParentWalkEnds ==
    msi.st = "parsed" =>
        /\ msi.res.outcome # "hang"
        /\ msi.sc.variant = "cycle" => msi.res.outcome \in {"error", "exit", "panic"}


(***************************************************************************)
(* Properties of the walk over the packages.                               *)
(***************************************************************************)

\* The IDs of the manifest, and the first package of an ID.
ManifestIds(manifest) == {manifest[n].ID : n \in 1..Len(manifest)}

FirstAt(manifest, id) ==
    CHOOSE n \in 1..Len(manifest) :
        manifest[n].ID = id /\ \A m \in 1..(n - 1) : manifest[m].ID # id

\* The IDs one step of Dependencies away from the packages of S, with S.
DepStep(manifest, S) ==
    S \cup UNION {manifest[FirstAt(manifest, id)].Dependencies :
                    id \in S \cap ManifestIds(manifest)}

\* The IDs that can be reached from S through Dependencies.
RECURSIVE Reachable(_, _)
Reachable(manifest, S) ==
    IF DepStep(manifest, S) = S THEN S ELSE Reachable(manifest, DepStep(manifest, S))

\* What is left of the walk: the IDs not yet in pkgs, each worth more than a
\* whole loop, and the turns left of the loops of the calls that have not
\* returned.
RECURSIVE TurnsLeft(_, _)
TurnsLeft(stack, L) ==
    IF stack = <<>> THEN 0 ELSE (L + 2 - Head(stack).i) + TurnsLeft(Tail(stack), L)

Rank(d) ==
    IF d.st \in {"done", "exit"} THEN 0
    ELSE IF d.st = "roots" THEN 0 - 1
    ELSE 1 + Cardinality(ManifestIds(d.manifest) \ {d.pkgs[n].ID : n \in 1..Len(d.pkgs)})
               * (Len(d.manifest) + 2)
           + TurnsLeft(d.stack, Len(d.manifest))

\* C27: the walk of buildVCTools over the packages comes to an end on every
\* manifest, one whose Dependencies form cycles too: every step of chase
\* leaves less to do, and a step can be taken until chase(roots) has
\* returned.  Then pkgs holds exactly the packages of the manifest whose IDs
\* can be reached from the components of the architectures through
\* Dependencies, and no ID was ever set twice.
C27_ChaseEndsWithReachable ==
    /\ [](drv.st = "chase" =>
            /\ ENABLED NextChase
            /\ Rank(drv) > 0
            /\ \A n, m \in 1..Len(drv.pkgs) : drv.pkgs[n].ID = drv.pkgs[m].ID => n = m)
    /\ [](drv.st = "done" =>
            /\ {drv.pkgs[n].ID : n \in 1..Len(drv.pkgs)}
                   = Reachable(drv.manifest, drv.roots) \cap ManifestIds(drv.manifest)
            /\ \A n, m \in 1..Len(drv.pkgs) : drv.pkgs[n].ID = drv.pkgs[m].ID => n = m
            /\ \A n \in 1..Len(drv.pkgs) :
                   drv.pkgs[n].at = FirstAt(drv.manifest, drv.pkgs[n].ID))
    /\ [][drv.st = "chase" => Rank(drv') < Rank(drv)]_vars

\* The walk is over on a manifest with a cycle of three packages, all of them
\* in pkgs.
C27_Witness ==
    /\ drv.st = "done"
    /\ Len(drv.pkgs) = 3
    /\ \E n \in 1..3 : drv.pkgs[1].ID \in drv.manifest[drv.pkgs[n].at].Dependencies
    /\ drv.pkgs[3].ID \in drv.manifest[drv.pkgs[2].at].Dependencies
    /\ drv.pkgs[2].ID \in drv.manifest[drv.pkgs[1].at].Dependencies


(***************************************************************************)
(* Properties of Next called after Next.                                   *)
(***************************************************************************)

\* C28: in every state any sequence of Next calls reaches, the first state
\* and the states after Next returned an error among them, every header
\* Next returned is of a file whose folder is one of the cabinet and
\* decompresses to its end, and the bytes set up for Read are that file's
\* segment of the whole of that folder: never bytes of another folder, of a
\* part of a folder, or of no folder.
C28_NeverStaleFolder ==
    \A n \in 1..Len(out.hdrs) :
        /\ cab.files[out.hdrs[n].idx].IFolder < Len(cab.fldrs)
        /\ Served(cab.files[out.hdrs[n].idx])
        /\ out.hdrs[n].data = Segment(cab.files[out.hdrs[n].idx])


(***************************************************************************)
(* Properties of Content called between Next and Read.                     *)
(***************************************************************************)

\* What Next and Read go by, and what they have delivered.
Cursor(c) ==
    [fileIdx |-> c.fileIdx, folderIdx |-> c.folderIdx, folderBuf |-> c.folderBuf,
     fileReader |-> c.fileReader]

\* What a call of Next or Read gives and leaves.
Outcome(r) == [res |-> r.res, err |-> r.err, cursor |-> Cursor(r.c)]

\* The Cabinet with its source at p.
SourceAt(p) == [cab EXCEPT !.pos = p]

\* Next with the source at p gives and leaves what base, Next with the
\* source where it is, gives and leaves; where Next loads a folder, the
\* source too is left where base leaves it.
NextAgrees(base, r) ==
    /\ Outcome(r) = Outcome(base)
    /\ r.res = "hdr" /\ ~SameFolder(cab, cab.files[cab.fileIdx + 1]) => r.c.pos = base.c.pos

ReadAgrees(base, r) == Outcome(r) = Outcome(base) /\ r.bytes = base.bytes

\* Where the source is put for the comparison: its two ends.
SourceEnds == {0, Len(cab.src)}

\* C29: Content calls, and reads of any number of bytes from their readers,
\* between the Next and Read calls of an iteration do not change the headers
\* and bytes Next and Read deliver.  A Content call and a read of its reader
\* leave the file cursor, the folder index, the folder buffer and the file
\* reader as they are; and wherever such calls have left the source, Next and
\* Read give and leave what they do with the source at either of its ends,
\* since Next seeks before it loads a folder.
C29_ContentLeavesIteration ==
    /\ [](Alive =>
            /\ The({\A p \in SourceEnds :
                        The({NextAgrees(base, r) : r \in {CabinetNext(SourceAt(p))}}) :
                      base \in {CabinetNext(cab)}})
            /\ \A p \in SourceEnds, k \in ReadBufs :
                   ReadAgrees(CabinetRead(cab, k), CabinetRead(SourceAt(p), k)))
    /\ [][(CabContent \/ CabContentRead) =>
            /\ Cursor(cab') = Cursor(cab)
            /\ out'.hdrs = out.hdrs
            /\ out'.got = out.got]_vars

\* Next has loaded a folder and returned the second header while a reader of
\* Content, read in part, had the source somewhere else.
C29_Witness ==
    /\ out.op = "Next"
    /\ out.res = "hdr"
    /\ Len(out.hdrs) = 2
    /\ out.hdrs[2].data # <<>>
    /\ cab.files[out.hdrs[1].idx].IFolder # cab.files[out.hdrs[2].idx].IFolder
    /\ rd.st = "open"
    /\ rd.got # <<>>
    /\ ~rd.clean


(***************************************************************************)
(* Properties of the classification of paths in the driver.                *)
(***************************************************************************)

\* C30: the driver never reads a segment a path does not have: a file of the
\* cabinet whose output path is in the file map of the MSI, one of fewer than
\* 3 segments or a lib path of fewer than 6 too, and a file of a package whose
\* name starts with Contents/VC/Tools/MSVC/, one of fewer than 6 segments too,
\* is kept or dropped; the classification does not end in an index out of
\* range.
C30_ClassifiedWithoutFault ==
    (drv.st = "run" /\ drv.last.by \in {"sdk", "vc"} /\ drv.last.path # <<>>) =>
        /\ drv.last.decision \in {"write", "drop"}
        /\ drv.pc # "panic"

====
